---- MODULE Spec2Model ----
(***************************************************************************)
(* Model of backend/vector_pipeline/restaurant_vector_pipeline.py          *)
(* (class RestaurantVectorPipeline): review chunking, the list and detail  *)
(* fetchers, the batch upserter and the pipeline driver.                   *)
(***************************************************************************)
EXTENDS Integers, Sequences, FiniteSets, TLC

\* ------------------------------------------------------------------ bounds

\* Longest review list given to create_review_chunks on its own.
MaxReviews == 4

\* Most records the list endpoint holds when the pipeline runs.
MaxRestaurants == 3

\* Reviews of the restaurant with many long reviews.
ManyReviews == 121

\* Most records the list endpoint holds when fetch_restaurant_data runs alone.
MaxRecords == 120

\* Most documents given to upsert_documents on its own.
MaxDocuments == 237

\* Records of a list endpoint that needs a second page when the pipeline runs.
LongList == 51

\* Longest review list given to an extractor on its own.
MaxContextReviews == 2

\* Most entries of openingHours.
MaxDays == 4

\* ------------------------------------------------------- program constants

\* create_review_chunks: max_chunk_tokens = 800
max_chunk_tokens == 800

\* fetch_restaurant_data: limit = 50
page_limit == 50

\* fetch_detailed_restaurant: max_retries = 5, retry_delay = 5
max_retries == 5
retry_delay == 5

\* upsert_documents(documents, batch_size = 50)
default_batch_size == 50

\* run_pipeline: if len(all_documents) >= 250
flush_threshold == 250

\* ---------------------------------------------------------------- helpers

None == "None"

Min(a, b) == IF a <= b THEN a ELSE b

\* The concatenation of ss[lo], ..., ss[hi], halving the range.
RECURSIVE FlattenRange(_, _, _)
FlattenRange(ss, lo, hi) ==
    IF lo > hi THEN <<>>
    ELSE IF lo = hi THEN ss[lo]
    ELSE FlattenRange(ss, lo, (lo + hi) \div 2)
            \o FlattenRange(ss, (lo + hi) \div 2 + 1, hi)

Flatten(ss) == FlattenRange(ss, 1, Len(ss))

RECURSIVE SumTokens(_)
SumTokens(es) == IF es = <<>> THEN 0 ELSE Head(es).tokens + SumTokens(Tail(es))

\* All sequences over S of length at most n.
SeqsUpTo(S, n) == UNION {[1..k -> S] : k \in 0..n}

\* ------------------------------------------------------------ review text

\* A text is a sequence of characters; " " stands for any whitespace.
IsSpace(c) == c = " "

RECURSIVE LStrip(_)
LStrip(t) == IF t # <<>> /\ IsSpace(Head(t)) THEN LStrip(Tail(t)) ELSE t

RECURSIVE RStrip(_)
RStrip(t) ==
    IF t # <<>> /\ IsSpace(t[Len(t)]) THEN RStrip(SubSeq(t, 1, Len(t) - 1)) ELSE t

\* str.strip()
Strip(t) == RStrip(LStrip(t))

TextSamples == { <<>>, <<" ">>, <<"a">>, <<" ", "a", " ">> }

\* What the tokenizer counts for a formatted review entry.
TokenSamples == {350, 500, 900}

\* What the tokenizer counts for the shared preamble (base_content).
BaseTokenSamples == {100, 850}

\* A review of the detail record: its text, and the tokenizer's count of the
\* entry formatted from it (read only when the stripped text is non-empty).
ReviewSamples ==
    {[text |-> t, tokens |-> 350] : t \in {x \in TextSamples : Strip(x) = <<>>}}
    \cup {[text |-> t, tokens |-> k] :
             t \in {x \in TextSamples : Strip(x) # <<>>}, k \in TokenSamples}

\* Reviews as they arrive: the reviewer name tells the reviews of one
\* restaurant apart.
Named(rs) ==
    [j \in 1..Len(rs) |->
        [reviewerName |-> j, text |-> rs[j].text, tokens |-> rs[j].tokens]]

\* --------------------------------------------------- create_review_chunks

\* review_text = review.get('text', '').strip(); if review_text: ...
KeepsReviewNoStrip(review) == review.text # <<>>
KeepsReview(review) == Strip(review.text) # <<>>

\* review_entry = f"Review by {reviewer_name} ({rating_stars}/5): {review_text}"
ReviewEntry(review) ==
    [reviewerName |-> review.reviewerName,
     text |-> Strip(review.text),
     tokens |-> review.tokens]

\* "Prepare all review texts": the entries of the reviews kept, in order.
AllReviewTexts(reviews) ==
    LET kept == SelectSeq(reviews, KeepsReview)
    IN [k \in 1..Len(kept) |-> ReviewEntry(kept[k])]

\* The same document with 'review_count': len(reviews).
ReviewDocumentCountsAll(restaurant_id, chunk_type, chunk_reviews, total_reviews) ==
    [restaurant_id |-> restaurant_id,
     chunk_type |-> chunk_type,
     reviews |-> chunk_reviews,
     review_count |-> total_reviews,
     total_reviews |-> total_reviews]

\* Document(page_content = base_content + " " + " | ".join(current_chunk_reviews),
\*          metadata = {...})
ReviewDocument(restaurant_id, chunk_type, chunk_reviews, total_reviews) ==
    [restaurant_id |-> restaurant_id,
     chunk_type |-> chunk_type,
     reviews |-> chunk_reviews,
     review_count |-> Len(chunk_reviews),
     total_reviews |-> total_reviews]

\* 'reviews_part_1', whatever the number of chunks already made
ReviewsPartOne(n) == <<"reviews_part", 1>>
\* f'reviews_part_{n}'
ReviewsPart(n) == <<"reviews_part", n>>

PackStart(base_tokens) ==
    [chunks |-> <<>>,
     current_chunk_reviews |-> <<>>,
     current_chunk_tokens |-> base_tokens]

\* The body of "for review_text in all_review_texts" with a slip: the review
\* that opens a new chunk is lost.
PackStepDropsReview(restaurant_id, total_reviews, base_tokens, st, entry) ==
    IF st.current_chunk_tokens + entry.tokens > max_chunk_tokens
       /\ st.current_chunk_reviews # <<>>
    THEN [chunks |-> Append(st.chunks,
                        ReviewDocument(restaurant_id, ReviewsPart(Len(st.chunks) + 1),
                                       st.current_chunk_reviews, total_reviews)),
          current_chunk_reviews |-> <<>>,
          current_chunk_tokens |-> base_tokens]
    ELSE [chunks |-> st.chunks,
          current_chunk_reviews |-> Append(st.current_chunk_reviews, entry),
          current_chunk_tokens |-> st.current_chunk_tokens + entry.tokens]

\* The same body without "and current_chunk_reviews".
PackStepNoGuard(restaurant_id, total_reviews, base_tokens, st, entry) ==
    IF st.current_chunk_tokens + entry.tokens > max_chunk_tokens
    THEN [chunks |-> Append(st.chunks,
                        ReviewDocument(restaurant_id, ReviewsPart(Len(st.chunks) + 1),
                                       st.current_chunk_reviews, total_reviews)),
          current_chunk_reviews |-> <<entry>>,
          current_chunk_tokens |-> base_tokens + entry.tokens]
    ELSE [chunks |-> st.chunks,
          current_chunk_reviews |-> Append(st.current_chunk_reviews, entry),
          current_chunk_tokens |-> st.current_chunk_tokens + entry.tokens]

\* The same body with a new chunk started for every review after the first.
PackStepOnePerChunk(restaurant_id, total_reviews, base_tokens, st, entry) ==
    IF st.current_chunk_reviews # <<>>
    THEN [chunks |-> Append(st.chunks,
                        ReviewDocument(restaurant_id, ReviewsPart(Len(st.chunks) + 1),
                                       st.current_chunk_reviews, total_reviews)),
          current_chunk_reviews |-> <<entry>>,
          current_chunk_tokens |-> base_tokens + entry.tokens]
    ELSE [chunks |-> st.chunks,
          current_chunk_reviews |-> Append(st.current_chunk_reviews, entry),
          current_chunk_tokens |-> st.current_chunk_tokens + entry.tokens]

\* The body of "for review_text in all_review_texts".
PackStep(restaurant_id, total_reviews, base_tokens, st, entry) ==
    IF st.current_chunk_tokens + entry.tokens > max_chunk_tokens
       /\ st.current_chunk_reviews # <<>>
    THEN [chunks |-> Append(st.chunks,
                        ReviewDocument(restaurant_id, ReviewsPart(Len(st.chunks) + 1),
                                       st.current_chunk_reviews, total_reviews)),
          current_chunk_reviews |-> <<entry>>,
          current_chunk_tokens |-> base_tokens + entry.tokens]
    ELSE [chunks |-> st.chunks,
          current_chunk_reviews |-> Append(st.current_chunk_reviews, entry),
          current_chunk_tokens |-> st.current_chunk_tokens + entry.tokens]

\* "for review_text in all_review_texts", over entries[lo..hi], left to right.
\* The range is halved, and the left half is evaluated before the right one
\* starts, only to keep the evaluation shallow on long review lists.
RECURSIVE PackRange(_, _, _, _, _, _, _)
PackRange(restaurant_id, total_reviews, base_tokens, st, entries, lo, hi) ==
    IF lo > hi THEN st
    ELSE IF lo = hi
         THEN PackStep(restaurant_id, total_reviews, base_tokens, st, entries[lo])
    ELSE LET left == PackRange(restaurant_id, total_reviews, base_tokens, st,
                               entries, lo, (lo + hi) \div 2)
         IN IF left = left
            THEN PackRange(restaurant_id, total_reviews, base_tokens, left,
                           entries, (lo + hi) \div 2 + 1, hi)
            ELSE st

PackLoop(restaurant_id, total_reviews, base_tokens, st, entries) ==
    PackRange(restaurant_id, total_reviews, base_tokens, st, entries, 1, Len(entries))

\* The final chunk typed 'reviews' whether or not parts were made before it.
FinalChunkAlwaysReviews(restaurant_id, total_reviews, st) ==
    IF st.current_chunk_reviews # <<>>
    THEN Append(st.chunks,
             ReviewDocument(restaurant_id, <<"reviews">>,
                            st.current_chunk_reviews, total_reviews))
    ELSE st.chunks

\* "Create final chunk with remaining reviews"
FinalChunk(restaurant_id, total_reviews, st) ==
    IF st.current_chunk_reviews # <<>>
    THEN Append(st.chunks,
             ReviewDocument(restaurant_id,
                 IF st.chunks # <<>> THEN ReviewsPart(Len(st.chunks) + 1) ELSE <<"reviews">>,
                 st.current_chunk_reviews, total_reviews))
    ELSE st.chunks

create_review_chunks(restaurant_id, reviews, base_tokens) ==
    IF reviews = <<>> THEN <<>>
    ELSE IF AllReviewTexts(reviews) = <<>> THEN <<>>
    ELSE FinalChunk(restaurant_id, Len(reviews),
             PackLoop(restaurant_id, Len(reviews), base_tokens,
                      PackStart(base_tokens), AllReviewTexts(reviews)))

\* ----------------------------------------------------- process_restaurant

\* The four chunks that are not review chunks; only what identifies them is kept.
PlainDocument(restaurant_id, chunk_type) ==
    [restaurant_id |-> restaurant_id, chunk_type |-> <<chunk_type>>]

\* The chunks list with the features chunk built before the review chunks.
AllChunksFeaturesFirst(restaurant_id, reviews, base_tokens) ==
    <<PlainDocument(restaurant_id, "overview"),
      PlainDocument(restaurant_id, "operational"),
      PlainDocument(restaurant_id, "parking_location"),
      PlainDocument(restaurant_id, "features")>>
    \o create_review_chunks(restaurant_id, reviews, base_tokens)

\* The chunks list as the try block builds it, in order.
AllChunks(restaurant_id, reviews, base_tokens) ==
    <<PlainDocument(restaurant_id, "overview"),
      PlainDocument(restaurant_id, "operational"),
      PlainDocument(restaurant_id, "parking_location")>>
    \o create_review_chunks(restaurant_id, reviews, base_tokens)
    \o <<PlainDocument(restaurant_id, "features")>>

\* The steps of the try block: the five builders, then the token-count loop.
BuildSteps == 1..6

\* The chunks list at the moment step `raised_at` raises.
ChunksBefore(restaurant_id, reviews, base_tokens, raised_at) ==
    LET all == AllChunks(restaurant_id, reviews, base_tokens)
        n == Len(all)
    IN CASE raised_at = 1 -> <<>>
         [] raised_at = 2 -> SubSeq(all, 1, 1)
         [] raised_at = 3 -> SubSeq(all, 1, 2)
         [] raised_at = 4 -> SubSeq(all, 1, 3)
         [] raised_at = 5 -> SubSeq(all, 1, n - 1)
         [] OTHER -> all

\* except Exception as e: ... return chunks   (a slip: the partial list)
OnBuildErrorPartial(chunks) == chunks
\* except Exception as e: ... return []
OnBuildError(chunks) == <<>>

\* if not detailed_data: return []   (a slip: the two fixed leading chunks
\* are built without the detail)
OnNoDetailPartial(restaurant_id) ==
    <<PlainDocument(restaurant_id, "overview")>>
\* if not detailed_data: return []
OnNoDetail(restaurant_id) == <<>>

\* The try block of process_restaurant; raised_at = 0 when nothing raises.
BuildChunks(restaurant_id, reviews, base_tokens, raised_at) ==
    IF raised_at = 0
    THEN AllChunks(restaurant_id, reviews, base_tokens)
    ELSE OnBuildError(ChunksBefore(restaurant_id, reviews, base_tokens, raised_at))

\* ---------------------------------------------- fetch_detailed_restaurant

\* wait_time = retry_delay * (2 ** attempt), doubling lost
BackoffLinear(a) == retry_delay * (a + 1)
\* wait_time = retry_delay * (2 ** attempt)
Backoff(a) == retry_delay * (2 ^ a)

\* What the detail endpoint can answer to one request: a detail record, a
\* 429, a body that does not parse, or any other failure (the request raises
\* or raise_for_status does).
AttemptOutcomes == {"ok", "rate_limited", "bad_json", "error"}

\* One pass of "for attempt in range(max_retries)": whether the loop goes on,
\* whether the call returns the parsed body, and what it slept.
AttemptStep(a, outcome) ==
    CASE outcome = "ok" ->
            \* raise_for_status(); time.sleep(0.5); return response.json()
            [again |-> FALSE, returns_json |-> TRUE, backoff |-> 0, success_delays |-> 1]
      [] outcome = "rate_limited" ->
            \* attempt < max_retries - 1: sleep and continue; otherwise
            \* raise_for_status raises and the handler returns None
            IF a < max_retries - 1
            THEN [again |-> TRUE, returns_json |-> FALSE,
                  backoff |-> Backoff(a), success_delays |-> 0]
            ELSE [again |-> FALSE, returns_json |-> FALSE,
                  backoff |-> 0, success_delays |-> 0]
      [] outcome = "bad_json" ->
            \* time.sleep(0.5) is done before response.json() raises
            IF a = max_retries - 1
            THEN [again |-> FALSE, returns_json |-> FALSE,
                  backoff |-> 0, success_delays |-> 1]
            ELSE [again |-> TRUE, returns_json |-> FALSE,
                  backoff |-> Backoff(a), success_delays |-> 1]
      [] OTHER ->
            IF a = max_retries - 1
            THEN [again |-> FALSE, returns_json |-> FALSE,
                  backoff |-> 0, success_delays |-> 0]
            ELSE [again |-> TRUE, returns_json |-> FALSE,
                  backoff |-> Backoff(a), success_delays |-> 0]

\* ------------------------------------------------- fetch_restaurant_data

\* The list endpoint: the records at positions offset .. offset + limit - 1.
ServerPage(records, off, lim) ==
    IF off >= Len(records) THEN <<>>
    ELSE SubSeq(records, off + 1, Min(off + lim, Len(records)))

\* The loop goes on whenever the page was full, whatever the total.
FetchDoneIgnoresTotal(fetched, page, total) == Len(page) < page_limit
\* The loop goes on after a short page while the total is not reached.
FetchDoneIgnoresShortPage(fetched, page, total) == Len(fetched) >= total
\* if len(all_restaurants) >= total or len(restaurants) < limit: break
FetchDone(fetched, page, total) ==
    Len(fetched) >= total \/ Len(page) < page_limit

\* ------------------------------------------------------ upsert_documents

\* batch = documents[i:i + batch_size], off by one at the end of the slice
BatchOfShort(documents, at, size) ==
    SubSeq(documents, at + 1, Min(at + size, Len(documents)) - 1)
\* batch = documents[i:i + batch_size]
BatchOf(documents, at, size) ==
    SubSeq(documents, at + 1, Min(at + size, Len(documents)))

\* ----------------------------------------------------------- run_pipeline

\* if start_from > 0: restaurants = restaurants[start_from:]
\* if limit: restaurants = restaurants[:limit]
Window(fetched, from, lim) ==
    LET n == Len(fetched)
        a == IF from > 0 THEN SubSeq(fetched, Min(from, n) + 1, n) ELSE fetched
        m == Len(a)
    IN IF lim = <<>> \/ lim[1] = 0 THEN a
       ELSE IF lim[1] > 0 THEN SubSeq(a, 1, Min(lim[1], m))
       ELSE SubSeq(a, 1, IF m + lim[1] > 0 THEN m + lim[1] ELSE 0)

\* if chunks: all_documents.extend(chunks), and the restaurant's chunks are
\* added a second time
ExtendTwice(documents, chunks) == documents \o chunks \o chunks
\* if chunks: all_documents.extend(chunks)
Extend(documents, chunks) == documents \o chunks

\* if len(all_documents) > 250
MustFlushLate(documents) == Len(documents) > flush_threshold
\* if len(all_documents) >= 250
MustFlush(documents) == Len(documents) >= flush_threshold

\* ---------------------------------------------------------------- strings

\* The character at position k, as a string of length 1.
CharAt(s, k) == SubSeq(s, k, k)

\* pat in text
Contains(text, pat) ==
    \E k \in 1..(Len(text) - Len(pat) + 1) : SubSeq(text, k, k + Len(pat) - 1) = pat

UpperCase == "ABCDEFGHIJKLMNOPQRSTUVWXYZ"
LowerCase == "abcdefghijklmnopqrstuvwxyz"

LowerChar(c) ==
    IF \E k \in 1..Len(UpperCase) : CharAt(UpperCase, k) = c
    THEN CharAt(LowerCase, CHOOSE k \in 1..Len(UpperCase) : CharAt(UpperCase, k) = c)
    ELSE c

RECURSIVE LowerRange(_, _, _)
LowerRange(s, lo, hi) ==
    IF lo > hi THEN ""
    ELSE IF lo = hi THEN LowerChar(CharAt(s, lo))
    ELSE LowerRange(s, lo, (lo + hi) \div 2) \o LowerRange(s, (lo + hi) \div 2 + 1, hi)

\* str.lower()
Lower(s) == LowerRange(s, 1, Len(s))

\* any(word in text for word in words)
AnyIn(words, text) == \E k \in 1..Len(words) : Contains(text, words[k])

Digits == "0123456789"

\* \d
IsDigit(c) == \E k \in 1..Len(Digits) : CharAt(Digits, k) = c

DigitValue(c) == (CHOOSE k \in 1..Len(Digits) : CharAt(Digits, k) = c) - 1

\* int(digits)
RECURSIVE IntOf(_)
IntOf(digits) ==
    IF digits = "" THEN 0
    ELSE 10 * IntOf(SubSeq(digits, 1, Len(digits) - 1))
         + DigitValue(CharAt(digits, Len(digits)))

\* Where the longest run of digits that starts at k ends.
RunEnd(s, k) ==
    CHOOSE e \in k..Len(s) :
        /\ \A j \in k..e : IsDigit(CharAt(s, j))
        /\ (e = Len(s) \/ ~IsDigit(CharAt(s, e + 1)))

\* re.findall(r'(\d+)', s), scanning from position k
RECURSIVE FindNumbersFrom(_, _)
FindNumbersFrom(s, k) ==
    IF k > Len(s) THEN <<>>
    ELSE IF IsDigit(CharAt(s, k))
         THEN <<SubSeq(s, k, RunEnd(s, k))>> \o FindNumbersFrom(s, RunEnd(s, k) + 1)
         ELSE FindNumbersFrom(s, k + 1)

FindNumbers(s) == FindNumbersFrom(s, 1)

\* The first position after k that holds no whitespace (Len(s) + 1 if none).
SkipSpaces(s, k) ==
    CHOOSE j \in (k + 1)..(Len(s) + 1) :
        /\ \A m \in (k + 1)..(j - 1) : IsSpace(CharAt(s, m))
        /\ (j = Len(s) + 1 \/ ~IsSpace(CharAt(s, j)))

\* re.findall(r'R\s*(\d+)', s), scanning from position k
RECURSIVE FindRandNumbersFrom(_, _)
FindRandNumbersFrom(s, k) ==
    IF k > Len(s) THEN <<>>
    ELSE LET j == SkipSpaces(s, k)
         IN IF CharAt(s, k) = "R" /\ j <= Len(s) /\ IsDigit(CharAt(s, j))
            THEN <<SubSeq(s, j, RunEnd(s, j))>> \o FindRandNumbersFrom(s, RunEnd(s, j) + 1)
            ELSE FindRandNumbersFrom(s, k + 1)

FindRandNumbers(s) == FindRandNumbersFrom(s, 1)

\* A dict with no key, and a dict with one key.
EmptyDict == <<>>
Dict(key, value) == [k \in {key} |-> value]

\* ------------------------------------------- extract_parking_intelligence

\* The "Parking space" branch with the two 'difficult' tests in the other order.
ParkingSpaceTagSomewhatFirst(parking_space) ==
    IF Contains(parking_space, "plenty")
    THEN [mention |-> <<"has plenty of parking available">>, difficulty |-> <<"easy">>]
    ELSE IF Contains(parking_space, "somewhat difficult")
    THEN [mention |-> <<"parking is somewhat limited">>, difficulty |-> <<"moderate">>]
    ELSE IF Contains(parking_space, "difficult")
    THEN [mention |-> <<"parking can be challenging to find">>, difficulty |-> <<"difficult">>]
    ELSE [mention |-> <<>>, difficulty |-> <<>>]

\* if 'plenty' in parking_space ... elif 'difficult' in parking_space ...
\* elif 'somewhat difficult' in parking_space ...: the mention appended and
\* the tag assigned, <<>> where the branch does neither.
ParkingSpaceTag(parking_space) ==
    IF Contains(parking_space, "plenty")
    THEN [mention |-> <<"has plenty of parking available">>, difficulty |-> <<"easy">>]
    ELSE IF Contains(parking_space, "difficult")
    THEN [mention |-> <<"parking can be challenging to find">>, difficulty |-> <<"difficult">>]
    ELSE IF Contains(parking_space, "somewhat difficult")
    THEN [mention |-> <<"parking is somewhat limited">>, difficulty |-> <<"moderate">>]
    ELSE [mention |-> <<>>, difficulty |-> <<>>]

\* "Check review text for parking mentions"
ParkingTextMention(text) ==
    IF AnyIn(<<"parking", "valet", "park">>, text)
    THEN IF Contains(text, "easy parking") \/ Contains(text, "plenty parking")
         THEN <<"visitors mention easy parking">>
         ELSE IF Contains(text, "difficult parking") \/ Contains(text, "hard to park")
         THEN <<"visitors report parking challenges">>
         ELSE IF Contains(text, "valet")
         THEN <<"offers valet parking service">>
         ELSE <<>>
    ELSE <<>>

\* The body of "for review in reviews".
ParkingStep(st, review) ==
    LET text == Lower(review.text)
        context == review.reviewContext
        tag == IF "Parking space" \in DOMAIN context
               THEN ParkingSpaceTag(Lower(context["Parking space"]))
               ELSE [mention |-> <<>>, difficulty |-> <<>>]
    IN [parking_mentions |-> st.parking_mentions \o tag.mention \o ParkingTextMention(text),
        parking_difficulty |-> IF tag.difficulty # <<>> THEN tag.difficulty[1]
                               ELSE st.parking_difficulty]

RECURSIVE ParkingLoop(_, _)
ParkingLoop(st, reviews) ==
    IF reviews = <<>> THEN st
    ELSE ParkingLoop(ParkingStep(st, Head(reviews)), Tail(reviews))

\* Returns parking_mentions (joined with ". " by the code, "parking
\* information not specified" when empty) and parking_difficulty.
extract_parking_intelligence(detailed_data) ==
    LET st == ParkingLoop([parking_mentions |-> <<>>, parking_difficulty |-> "unknown"],
                          detailed_data.reviews)
    IN [parking_mentions |->
            st.parking_mentions
            \o (IF detailed_data.serviceOptions.hasParking
                THEN <<"provides parking facilities">> ELSE <<>>),
        parking_difficulty |-> st.parking_difficulty]

\* create_parking_location_chunk: the metadata that comes from the detail
\* record, and the parking sentence of the content.
create_parking_location_chunk(restaurant_id, detailed_data) ==
    LET parking == extract_parking_intelligence(detailed_data)
    IN [restaurant_id |-> restaurant_id,
        chunk_type |-> <<"parking_location">>,
        parking_desc |-> IF parking.parking_mentions # <<>> THEN parking.parking_mentions
                         ELSE <<"parking information not specified">>,
        parking_difficulty |-> parking.parking_difficulty,
        has_parking |-> parking.parking_difficulty \in {"easy", "moderate"}]

\* --------------------------------------------- extract_price_intelligence

\* "Extract from average price if available"
AveragePriceNumbers(avg_price) ==
    LET price_numbers == IF avg_price # "" THEN FindRandNumbers(avg_price) ELSE <<>>
    IN IF price_numbers # <<>>
       THEN [price_min |-> IntOf(price_numbers[1]),
             price_max |-> IF Len(price_numbers) > 1 THEN IntOf(price_numbers[2])
                           ELSE IntOf(price_numbers[1]) + 100]
       ELSE [price_min |-> 0, price_max |-> 0]

\* The body of "for review in reviews".
PriceStep(st, review) ==
    LET context == review.reviewContext
    IN IF "Price per person" \in DOMAIN context
       THEN LET price_per_person == context["Price per person"]
                numbers == FindNumbers(price_per_person)
                mentions == Append(st.price_mentions,
                                   <<"diners report spending", price_per_person>>)
            IN IF numbers # <<>> /\ st.price_min = 0
               THEN [price_mentions |-> mentions,
                     price_min |-> IntOf(numbers[1]),
                     price_max |-> IF Len(numbers) > 1 THEN IntOf(numbers[2])
                                   ELSE IntOf(numbers[1]) + 50]
               ELSE [price_mentions |-> mentions,
                     price_min |-> st.price_min,
                     price_max |-> st.price_max]
       ELSE st

RECURSIVE PriceLoop(_, _)
PriceLoop(st, reviews) ==
    IF reviews = <<>> THEN st
    ELSE PriceLoop(PriceStep(st, Head(reviews)), Tail(reviews))

\* Returns price_mentions (joined with ". " by the code, "pricing information
\* varies" when empty), price_min and price_max.
extract_price_intelligence(detailed_data) ==
    LET base_price == detailed_data.price
        avg_price == detailed_data.averagePrice
        from_average == AveragePriceNumbers(avg_price)
    IN PriceLoop(
           [price_mentions |->
                (IF base_price # "" THEN << <<"price range", base_price>> >> ELSE <<>>)
                \o (IF avg_price # "" THEN << <<"typical cost", avg_price>> >> ELSE <<>>),
            price_min |-> from_average.price_min,
            price_max |-> from_average.price_max],
           detailed_data.reviews)

\* ----------------------------------------------- create_operational_chunk

LateTimes == <<"10 pm", "11 pm", "12 am", "1 am">>
EarlyTimes == <<"7 am", "8 am", "9 am">>

\* any(time in hours for time in times): lower() is lost
HoursMatchCaseSensitive(hours, times) == AnyIn(times, hours)
\* any(time in hours.lower() for time in times)
HoursMatch(hours, times) == AnyIn(times, Lower(hours))

\* The days appended to late_hours or early_hours, in list order.
MatchingDays(opening_hours, times) ==
    LET matching == SelectSeq(opening_hours, LAMBDA day_info : HoursMatch(day_info.hours, times))
    IN [k \in 1..Len(matching) |-> matching[k].day]

\* days[:3]
FirstThree(days) == SubSeq(days, 1, Min(3, Len(days)))

\* create_operational_chunk: the clauses of the content and the metadata
\* that come from the opening hours.
create_operational_chunk(restaurant_id, detailed_data) ==
    LET opening_hours == detailed_data.openingHours
        late_hours == MatchingDays(opening_hours, LateTimes)
        early_hours == MatchingDays(opening_hours, EarlyTimes)
    IN [restaurant_id |-> restaurant_id,
        chunk_type |-> <<"operational">>,
        content_parts |->
            IF opening_hours # <<>>
            THEN (IF late_hours # <<>>
                  THEN << <<"Open late for dining on", FirstThree(late_hours)>> >> ELSE <<>>)
                 \o (IF early_hours # <<>>
                     THEN << <<"Early dining available on", FirstThree(early_hours)>> >>
                     ELSE <<>>)
                 \o << <<"Operating hours vary by day, with full weekly schedule available.",
                         <<>>>> >>
            ELSE <<>>,
        open_late |-> IF opening_hours # <<>> THEN late_hours # <<>> ELSE FALSE,
        open_early |-> IF opening_hours # <<>> THEN early_hours # <<>> ELSE FALSE]

\* ---------------------------------------------- extract_experience_themes

ExcellenceWords == <<"excellent", "amazing", "outstanding", "perfect">>
ServiceWords == <<"service", "staff", "friendly", "helpful">>
FoodWords == <<"delicious", "tasty", "fresh", "quality">>
AtmosphereWords == <<"atmosphere", "ambiance", "cozy", "romantic">>
ValueWords == <<"value", "worth", "reasonable", "affordable">>

ExcellenceSentence == "consistently receives excellent reviews"
ServiceSentence == "praised for friendly service"
FoodSentence == "food quality highly rated"
AtmosphereSentence == "creates a welcoming atmosphere"
ValueSentence == "offers good value for money"

\* reviews[:15]
themes_window == 15

\* [sentence] when a keyword of the family is in the text, [] otherwise
Mention(words, text, sentence) == IF AnyIn(words, text) THEN <<sentence>> ELSE <<>>

NoThemes ==
    [themes |-> <<>>, positive_words |-> <<>>,
     service_mentions |-> <<>>, food_mentions |-> <<>>]

\* The same body without the test on the review's rating.
ThemeStepAnyRating(st, review) ==
    LET text == Lower(review.text)
    IN [themes |-> st.themes \o Mention(AtmosphereWords, text, AtmosphereSentence)
                             \o Mention(ValueWords, text, ValueSentence),
        positive_words |->
            st.positive_words \o Mention(ExcellenceWords, text, ExcellenceSentence),
        service_mentions |->
            st.service_mentions \o Mention(ServiceWords, text, ServiceSentence),
        food_mentions |-> st.food_mentions \o Mention(FoodWords, text, FoodSentence)]

\* The body of "for review in reviews[:15]".
ThemeStep(st, review) ==
    LET text == Lower(review.text)
        rating == review.rating
    IN IF rating >= 4
       THEN [themes |-> st.themes \o Mention(AtmosphereWords, text, AtmosphereSentence)
                                  \o Mention(ValueWords, text, ValueSentence),
             positive_words |->
                 st.positive_words \o Mention(ExcellenceWords, text, ExcellenceSentence),
             service_mentions |->
                 st.service_mentions \o Mention(ServiceWords, text, ServiceSentence),
             food_mentions |-> st.food_mentions \o Mention(FoodWords, text, FoodSentence)]
       ELSE st

RECURSIVE ThemeLoop(_, _)
ThemeLoop(st, reviews) ==
    IF reviews = <<>> THEN st
    ELSE ThemeLoop(ThemeStep(st, Head(reviews)), Tail(reviews))

\* sep.join(parts)
RECURSIVE Join(_, _)
Join(parts, sep) ==
    IF parts = <<>> THEN ""
    ELSE IF Len(parts) = 1 THEN parts[1]
    ELSE parts[1] \o sep \o Join(Tail(parts), sep)

\* list(set(items)): the distinct items, in an order the set's hashing decides;
\* string hashes differ from one interpreter process to the next, so every
\* order of the distinct items is possible.
ListOfSet(items) ==
    LET distinct == {items[k] : k \in 1..Len(items)}
        n == Cardinality(distinct)
    IN {order \in [1..n -> distinct] :
           \A a, b \in 1..n : order[a] = order[b] => a = b}

\* The strings extract_experience_themes can return for these reviews.
extract_experience_themes(reviews) ==
    LET st == ThemeLoop(NoThemes, SubSeq(reviews, 1, Min(themes_window, Len(reviews))))
        found == st.themes \o st.positive_words \o st.service_mentions \o st.food_mentions
    IN {IF all_themes # <<>>
        THEN Join(SubSeq(all_themes, 1, Min(5, Len(all_themes))), ". ")
        ELSE "popular dining destination" : all_themes \in ListOfSet(found)}

\* ------------------------------------- create_review_chunks, with its page

UpperChar(c) ==
    IF \E k \in 1..Len(LowerCase) : CharAt(LowerCase, k) = c
    THEN CharAt(UpperCase, CHOOSE k \in 1..Len(LowerCase) : CharAt(LowerCase, k) = c)
    ELSE c

\* str.capitalize()
Capitalize(s) ==
    IF s = "" THEN ""
    ELSE UpperChar(CharAt(s, 1)) \o LowerRange(s, 2, Len(s))

\* "Rating context"; the rating is in tenths of a star.
RatingContext(rating) ==
    IF rating >= 45
    THEN <<"Exceptional dining experience with outstanding customer satisfaction.">>
    ELSE IF rating >= 40
    THEN <<"High-quality dining experience with positive customer feedback.">>
    ELSE IF rating >= 35
    THEN <<"Good dining option with generally satisfied customers.">>
    ELSE <<>>

\* price_desc = ". ".join(price_mentions) if price_mentions else "pricing
\* information varies"; a mention is f"{what} {value}".
PriceDesc(price_mentions) ==
    IF price_mentions # <<>>
    THEN Join([k \in 1..Len(price_mentions) |->
                  price_mentions[k][1] \o " " \o price_mentions[k][2]], ". ")
    ELSE "pricing information varies"

\* base_content_parts
BaseContentParts(title, rating, experience_themes, price_desc) ==
    << title \o " customer reviews and dining experiences:" >>
    \o RatingContext(rating)
    \o (IF experience_themes # "" THEN <<Capitalize(experience_themes) \o ".">> ELSE <<>>)
    \o (IF price_desc # "" THEN <<Capitalize(price_desc) \o ".">> ELSE <<>>)

\* The same metadata with 'affordable': price_max <= 300.
ReviewMetadataFreeIsAffordable(rating, price_min, price_max) ==
    [rating |-> rating,
     price_min |-> price_min,
     price_max |-> price_max,
     high_rated |-> rating >= 40,
     exceptional |-> rating >= 45,
     affordable |-> price_max <= 300,
     mid_range |-> price_min >= 200 /\ price_max <= 500,
     upscale |-> price_min >= 400]

\* The rating, price and tier entries of the metadata of a review chunk; the
\* rating is in tenths of a star.
ReviewMetadata(rating, price_min, price_max) ==
    [rating |-> rating,
     price_min |-> price_min,
     price_max |-> price_max,
     high_rated |-> rating >= 40,
     exceptional |-> rating >= 45,
     affordable |-> price_max > 0 /\ price_max <= 300,
     mid_range |-> price_min >= 200 /\ price_max <= 500,
     upscale |-> price_min >= 400]

\* A text as the sequence of its characters.
Chars(s) == [k \in 1..Len(s) |-> CharAt(s, k)]

\* create_review_chunks with the page content and the metadata of its
\* documents, given what extract_experience_themes returned and what the
\* tokenizer counts for the preamble.
ReviewChunksOf(restaurant, detailed_data, experience_themes, base_tokens) ==
    LET reviews == detailed_data.reviews
        rating == restaurant.totalScore
        price == extract_price_intelligence(detailed_data)
        base_content ==
            Join(BaseContentParts(restaurant.title, rating, experience_themes,
                                  PriceDesc(price.price_mentions)), " ")
        packed ==
            create_review_chunks(restaurant.id,
                [k \in 1..Len(reviews) |->
                    [reviewerName |-> reviews[k].reviewerName,
                     text |-> Chars(reviews[k].text),
                     tokens |-> reviews[k].tokens]],
                base_tokens)
    IN IF reviews = <<>> THEN <<>>
       ELSE [k \in 1..Len(packed) |->
                [page_content |->
                     [base_content |-> base_content, reviews |-> packed[k].reviews],
                 chunk_type |-> packed[k].chunk_type,
                 review_count |-> packed[k].review_count,
                 total_reviews |-> packed[k].total_reviews,
                 metadata |-> ReviewMetadata(rating, price.price_min, price.price_max)]]

\* ------------------------------------------------------------------ state

VARIABLES
    cr_pc,          \* create_review_chunks on its own: "off", "call", "returned"
    cr_reviews,     \* detailed_data['reviews']
    cr_base_tokens, \* count_tokens(base_content)
    cr_chunks,      \* the list create_review_chunks returned
    \* the list endpoint
    server_records, \* the summaries the endpoint holds, in server order
    server_total,   \* the total it reports
    \* fetch_restaurant_data
    fl_pc,          \* "off", "loop", "returned", "raised"
    offset,
    all_restaurants,
    list_requests,  \* the offsets requested so far, in order
    \* run_pipeline
    pc,             \* "off", "create_index", "fetch_list", "loop", "process",
                    \* "flush", "final_flush", "done", "failed"
    start_from,
    limit,          \* <<>> is None, <<n>> is n
    restaurants,    \* the window being processed
    i,              \* restaurants of the window handled so far
    all_documents,  \* the accumulator; upsert_documents reads it as `documents`
    processed_count,
    error,          \* what made run_pipeline raise
    results,        \* per handled restaurant: what process_restaurant returned
    \* fetch_detailed_restaurant
    d_pc,           \* "off", "attempt", "returned"
    attempt,
    detailed_data,
    d_requests,     \* requests made by the current call
    d_last,         \* how its last request ended ("none" before the first)
    d_wait,         \* what the current call slept since its last request
    \* upsert_documents
    up_pc,          \* "off", "loop", "returned", "raised"
    up_i,
    batch_size,
    store_calls,    \* the add_documents calls made, in order
    \* a chunk builder or extractor called on its own
    ex_pc,          \* "off", "call", "returned"
    ex_call,        \* which one is called
    ex_detail,      \* detailed_data
    ex_result,      \* what it returned
    ex_restaurant,  \* the summary record (create_review_chunks only)
    ex_base_tokens, \* what the tokenizer counts for the preamble
    ex_previous     \* what an earlier run on the same input returned

crVars == <<cr_pc, cr_reviews, cr_base_tokens, cr_chunks>>
serverVars == <<server_records, server_total>>
listVars == <<fl_pc, offset, all_restaurants, list_requests>>
detailVars == <<d_pc, attempt, detailed_data, d_requests, d_last, d_wait>>
upsertVars == <<up_pc, up_i, batch_size, store_calls>>
driverVars == <<pc, start_from, limit, restaurants, i, all_documents,
                processed_count, error, results>>
exVars == <<ex_pc, ex_call, ex_detail, ex_result, ex_restaurant, ex_base_tokens,
            ex_previous>>

vars == <<crVars, serverVars, listVars, detailVars, upsertVars, driverVars, exVars>>

NoWait == [backoff |-> 0, success_delays |-> 0]
NoDetail == [kind |-> "None"]

\* ------------------------------------------------- components left unused

ChunksOff ==
    /\ cr_pc = "off"
    /\ cr_reviews = <<>>
    /\ cr_base_tokens = 0
    /\ cr_chunks = <<>>

ListOff ==
    /\ server_records = <<>>
    /\ server_total = 0
    /\ fl_pc = "off"
    /\ offset = 0
    /\ all_restaurants = <<>>
    /\ list_requests = <<>>

DetailOff ==
    /\ d_pc = "off"
    /\ attempt = 0
    /\ detailed_data = NoDetail
    /\ d_requests = 0
    /\ d_last = "none"
    /\ d_wait = NoWait

UpsertOff ==
    /\ up_pc = "off"
    /\ up_i = 0
    /\ batch_size = default_batch_size
    /\ store_calls = <<>>

DriverOff ==
    /\ pc = "off"
    /\ start_from = 0
    /\ limit = <<>>
    /\ restaurants = <<>>
    /\ i = 0
    /\ all_documents = <<>>
    /\ processed_count = 0
    /\ error = None
    /\ results = <<>>

ExtractOff ==
    /\ ex_pc = "off"
    /\ ex_call = None
    /\ ex_detail = NoDetail
    /\ ex_result = None
    /\ ex_restaurant = None
    /\ ex_base_tokens = 0
    /\ ex_previous = None

\* ------------------------------------- create_review_chunks, on its own

InitChunks ==
    /\ cr_pc = "call"
    /\ cr_reviews \in {Named(rs) : rs \in SeqsUpTo(ReviewSamples, MaxReviews)}
    /\ cr_base_tokens \in BaseTokenSamples
    /\ cr_chunks = <<>>
    /\ ListOff /\ DetailOff /\ UpsertOff /\ DriverOff /\ ExtractOff

CallCreateReviewChunks ==
    /\ cr_pc = "call"
    /\ cr_chunks' = create_review_chunks(1, cr_reviews, cr_base_tokens)
    /\ cr_pc' = "returned"
    /\ UNCHANGED <<cr_reviews, cr_base_tokens>>
    /\ UNCHANGED <<exVars, serverVars, listVars, detailVars, upsertVars, driverVars>>

NextChunks == CallCreateReviewChunks

SpecChunks == InitChunks /\ [][NextChunks]_vars

\* ---------------------------------------------------------- the services

\* What the detail endpoint can hold for a restaurant: no review, one short
\* review, or ManyReviews long reviews (one review chunk each).
DetailSamples ==
    {[kind |-> "detail", reviews |-> <<>>],
     [kind |-> "detail", reviews |-> Named(<<[text |-> <<"a", " ">>, tokens |-> 350]>>)],
     [kind |-> "detail",
      reviews |-> Named([j \in 1..ManyReviews |-> [text |-> <<"a">>, tokens |-> 900]])]}

\* A body that parses to an empty object.
EmptyDetail == [kind |-> "empty"]

\* if not detailed_data
Falsy(detail) == detail.kind # "detail"

\* ------------------------------------------------- fetch_restaurant_data

\* One pass of the while loop whose request succeeds.
FetchPage ==
    /\ fl_pc = "loop"
    /\ list_requests' = Append(list_requests, offset)
    /\ LET page == ServerPage(server_records, offset, page_limit)
           fetched == all_restaurants \o page
       IN IF page = <<>>
          THEN /\ fl_pc' = "returned"
               /\ UNCHANGED <<all_restaurants, offset>>
          ELSE /\ all_restaurants' = fetched
               /\ IF FetchDone(fetched, page, server_total)
                  THEN fl_pc' = "returned" /\ UNCHANGED offset
                  ELSE fl_pc' = "loop" /\ offset' = offset + page_limit
    /\ UNCHANGED <<exVars, crVars, serverVars, detailVars, upsertVars, driverVars>>

\* One pass whose request fails, with a handler that prints and lets the loop
\* ask for the same page again.
FetchPageFailsAsksAgain ==
    /\ fl_pc = "loop"
    /\ list_requests' = Append(list_requests, offset)
    /\ UNCHANGED <<fl_pc, offset, all_restaurants>>
    /\ UNCHANGED <<exVars, crVars, serverVars, detailVars, upsertVars, driverVars>>

\* One pass whose request fails: requests.get or raise_for_status raises, the
\* handler prints and raises again, and so does run_pipeline's.
FetchPageFails ==
    /\ fl_pc = "loop"
    /\ list_requests' = Append(list_requests, offset)
    /\ fl_pc' = "raised"
    /\ IF pc = "fetch_list"
       THEN pc' = "failed" /\ error' = "list"
       ELSE UNCHANGED <<pc, error>>
    /\ UNCHANGED <<offset, all_restaurants, start_from, limit, restaurants, i,
                   all_documents, processed_count, results>>
    /\ UNCHANGED <<exVars, crVars, serverVars, detailVars, upsertVars>>

\* ------------------------------------------------------ upsert_documents

\* One pass of "for i in range(0, len(documents), batch_size)" whose
\* add_documents call succeeds.
UpsertBatch ==
    /\ up_pc = "loop"
    /\ up_i < Len(all_documents)
    /\ store_calls' = Append(store_calls,
                          [batch |-> BatchOf(all_documents, up_i, batch_size), ok |-> TRUE])
    /\ up_i' = up_i + batch_size
    /\ UNCHANGED <<up_pc, batch_size>>
    /\ UNCHANGED <<exVars, crVars, serverVars, listVars, detailVars, driverVars>>

\* One pass whose add_documents call raises, with a handler that prints and
\* goes on with the next batch.
UpsertBatchFailsGoesOn ==
    /\ up_pc = "loop"
    /\ up_i < Len(all_documents)
    /\ store_calls' = Append(store_calls,
                          [batch |-> BatchOf(all_documents, up_i, batch_size), ok |-> FALSE])
    /\ up_i' = up_i + batch_size
    /\ UNCHANGED <<up_pc, batch_size>>
    /\ UNCHANGED <<exVars, crVars, serverVars, listVars, detailVars, driverVars>>

\* One pass whose add_documents call raises: upsert_documents prints and
\* raises again, and so does run_pipeline.
UpsertBatchFails ==
    /\ up_pc = "loop"
    /\ up_i < Len(all_documents)
    /\ store_calls' = Append(store_calls,
                          [batch |-> BatchOf(all_documents, up_i, batch_size), ok |-> FALSE])
    /\ up_pc' = "raised"
    /\ IF pc \in {"flush", "final_flush"}
       THEN pc' = "failed" /\ error' = "upsert"
       ELSE UNCHANGED <<pc, error>>
    /\ UNCHANGED <<up_i, batch_size, start_from, limit, restaurants, i,
                   all_documents, processed_count, results>>
    /\ UNCHANGED <<exVars, crVars, serverVars, listVars, detailVars>>

\* The loop is over (or documents was empty): upsert_documents returns. In
\* run_pipeline the accumulator is then cleared (a flush inside the loop), or
\* the run is complete (the flush after the loop).
UpsertReturns ==
    /\ up_pc = "loop"
    /\ up_i >= Len(all_documents)
    /\ up_pc' = "returned"
    /\ up_i' = 0
    /\ CASE pc = "flush" -> pc' = "loop" /\ all_documents' = <<>>
         [] pc = "final_flush" -> pc' = "done" /\ UNCHANGED all_documents
         [] OTHER -> UNCHANGED <<pc, all_documents>>
    /\ UNCHANGED <<batch_size, store_calls, start_from, limit, restaurants, i,
                   processed_count, error, results>>
    /\ UNCHANGED <<exVars, crVars, serverVars, listVars, detailVars>>

\* ----------------------------------------------------------- run_pipeline

\* self.create_or_get_index() returns.
CreateIndex ==
    /\ pc = "create_index"
    /\ pc' = "fetch_list"
    /\ fl_pc' = "loop"
    /\ UNCHANGED <<offset, all_restaurants, list_requests, start_from, limit,
                   restaurants, i, all_documents, processed_count, error, results>>
    /\ UNCHANGED <<exVars, crVars, serverVars, detailVars, upsertVars>>

\* self.create_or_get_index() raises.
CreateIndexFails ==
    /\ pc = "create_index"
    /\ pc' = "failed"
    /\ error' = "index"
    /\ UNCHANGED <<start_from, limit, restaurants, i, all_documents,
                   processed_count, results>>
    /\ UNCHANGED <<exVars, crVars, serverVars, listVars, detailVars, upsertVars>>

\* fetch_restaurant_data has returned: the window is cut out of the list.
SliceWindow ==
    /\ pc = "fetch_list"
    /\ fl_pc = "returned"
    /\ restaurants' = Window(all_restaurants, start_from, limit)
    /\ all_documents' = <<>>
    /\ processed_count' = 0
    /\ i' = 0
    /\ pc' = "loop"
    /\ UNCHANGED <<start_from, limit, error, results>>
    /\ UNCHANGED <<exVars, crVars, serverVars, listVars, detailVars, upsertVars>>

\* The loop takes the next restaurant and process_restaurant starts its
\* detail fetch.
StartRestaurant ==
    /\ pc = "loop"
    /\ i < Len(restaurants)
    /\ pc' = "process"
    /\ d_pc' = "attempt"
    /\ attempt' = 0
    /\ d_requests' = 0
    /\ d_last' = "none"
    /\ d_wait' = NoWait
    /\ detailed_data' = NoDetail
    /\ UNCHANGED <<start_from, limit, restaurants, i, all_documents,
                   processed_count, error, results>>
    /\ UNCHANGED <<exVars, crVars, serverVars, listVars, upsertVars>>

\* One request of fetch_detailed_restaurant and what follows it in the loop.
DetailAttempt ==
    /\ d_pc = "attempt"
    /\ \E outcome \in AttemptOutcomes :
         LET step == AttemptStep(attempt, outcome)
         IN /\ d_requests' = d_requests + 1
            /\ d_last' = outcome
            /\ d_wait' = [backoff |-> step.backoff,
                          success_delays |-> step.success_delays]
            /\ IF step.again
               THEN /\ attempt' = attempt + 1
                    /\ d_pc' = "attempt"
                    /\ UNCHANGED detailed_data
               ELSE /\ d_pc' = "returned"
                    /\ UNCHANGED attempt
                    /\ IF step.returns_json
                       THEN detailed_data' \in DetailSamples \cup {EmptyDetail}
                       ELSE detailed_data' = NoDetail
    /\ UNCHANGED <<exVars, crVars, serverVars, listVars, upsertVars, driverVars>>

\* What run_pipeline does with the list process_restaurant returned: extend
\* the accumulator, count, and flush at the threshold.
AfterRestaurant(chunks, outcome) ==
    LET documents == IF chunks # <<>> THEN Extend(all_documents, chunks)
                     ELSE all_documents
    IN /\ all_documents' = documents
       /\ processed_count' = IF chunks # <<>> THEN processed_count + 1
                             ELSE processed_count
       /\ results' = Append(results, [restaurant_id |-> restaurants[i + 1],
                                      outcome |-> outcome,
                                      chunks |-> chunks])
       /\ i' = i + 1
       /\ IF MustFlush(documents)
          THEN pc' = "flush" /\ up_pc' = "loop" /\ up_i' = 0
          ELSE pc' = "loop" /\ UNCHANGED <<up_pc, up_i>>
       /\ d_pc' = "off"
       /\ attempt' = 0
       /\ d_requests' = 0
       /\ d_last' = "none"
       /\ d_wait' = NoWait
       /\ detailed_data' = NoDetail
       /\ UNCHANGED <<batch_size, store_calls, start_from, limit, restaurants, error>>
       /\ UNCHANGED <<exVars, crVars, serverVars, listVars>>

\* process_restaurant got no detail and returns without building.
SkipRestaurant ==
    /\ pc = "process"
    /\ d_pc = "returned"
    /\ Falsy(detailed_data)
    /\ AfterRestaurant(OnNoDetail(restaurants[i + 1]),
                       IF detailed_data = NoDetail THEN "no_detail" ELSE "empty_detail")

\* process_restaurant builds the chunks; any step of the try block may raise.
BuildRestaurant ==
    /\ pc = "process"
    /\ d_pc = "returned"
    /\ ~Falsy(detailed_data)
    /\ \E raised_at \in {0} \cup BuildSteps, base_tokens \in BaseTokenSamples :
         AfterRestaurant(
             BuildChunks(restaurants[i + 1], detailed_data.reviews, base_tokens, raised_at),
             IF raised_at = 0 THEN "built" ELSE "build_error")

\* The loop is over: the remainder is flushed, or there is none.
FinishLoop ==
    /\ pc = "loop"
    /\ i >= Len(restaurants)
    /\ IF all_documents # <<>>
       THEN pc' = "final_flush" /\ up_pc' = "loop" /\ up_i' = 0
       ELSE pc' = "done" /\ UNCHANGED <<up_pc, up_i>>
    /\ UNCHANGED <<batch_size, store_calls, start_from, limit, restaurants, i,
                   all_documents, processed_count, error, results>>
    /\ UNCHANGED <<exVars, crVars, serverVars, listVars, detailVars>>

\* --------------------------------------------------- the whole pipeline

StartSamples == {0, 1}
LimitSamples == {<<>>, <<0>>, <<2>>}

\* A list of more than one page is run with a limit, as a resumed run is.
Init ==
    /\ ChunksOff /\ DetailOff /\ UpsertOff /\ ExtractOff
    /\ \E n \in (0..MaxRestaurants) \cup {LongList} :
         /\ server_records = [j \in 1..n |-> j]
         /\ server_total = n
         /\ limit \in IF n > MaxRestaurants THEN {<<2>>} ELSE LimitSamples
    /\ fl_pc = "off"
    /\ offset = 0
    /\ all_restaurants = <<>>
    /\ list_requests = <<>>
    /\ pc = "create_index"
    /\ start_from \in StartSamples
    /\ restaurants = <<>>
    /\ i = 0
    /\ all_documents = <<>>
    /\ processed_count = 0
    /\ error = None
    /\ results = <<>>

Next ==
    \/ CreateIndex
    \/ CreateIndexFails
    \/ FetchPage
    \/ FetchPageFails
    \/ SliceWindow
    \/ StartRestaurant
    \/ DetailAttempt
    \/ SkipRestaurant
    \/ BuildRestaurant
    \/ UpsertBatch
    \/ UpsertBatchFails
    \/ UpsertReturns
    \/ FinishLoop

Spec == Init /\ [][Next]_vars

\* ---------------------------------------- fetch_restaurant_data, on its own

InitFetch ==
    /\ ChunksOff /\ DetailOff /\ UpsertOff /\ DriverOff /\ ExtractOff
    /\ \E n \in 0..MaxRecords :
         /\ server_records = [j \in 1..n |-> j]
         /\ server_total = n
    /\ fl_pc = "loop"
    /\ offset = 0
    /\ all_restaurants = <<>>
    /\ list_requests = <<>>

NextFetch == FetchPage \/ FetchPageFails

SpecFetch == InitFetch /\ [][NextFetch]_vars

\* What an endpoint holding n records can report as total: nothing (read as
\* 0), n, more than n, less than n.
TotalSamples(n) == {0, n, n + page_limit, n \div 2}

InitFetchAnyTotal ==
    /\ ChunksOff /\ DetailOff /\ UpsertOff /\ DriverOff /\ ExtractOff
    /\ \E n \in 0..MaxRecords :
         /\ server_records = [j \in 1..n |-> j]
         /\ server_total \in TotalSamples(n)
    /\ fl_pc = "loop"
    /\ offset = 0
    /\ all_restaurants = <<>>
    /\ list_requests = <<>>

\* The loop is sequential code: while it has a next pass, the pass is made.
SpecFetchLive == InitFetchAnyTotal /\ [][NextFetch]_vars /\ WF_vars(NextFetch)

\* ------------------------------------------- upsert_documents, on its own

BatchSizeSamples == {1, 7, default_batch_size}

InitUpsert ==
    /\ ChunksOff /\ DetailOff /\ ListOff /\ ExtractOff
    /\ pc = "off"
    /\ start_from = 0
    /\ limit = <<>>
    /\ restaurants = <<>>
    /\ i = 0
    /\ \E n \in 0..MaxDocuments :
         all_documents = [j \in 1..n |-> PlainDocument(0, j)]
    /\ processed_count = 0
    /\ error = None
    /\ results = <<>>
    /\ up_pc = "loop"
    /\ up_i = 0
    /\ batch_size \in BatchSizeSamples
    /\ store_calls = <<>>

NextUpsert == UpsertBatch \/ UpsertBatchFails \/ UpsertReturns

SpecUpsert == InitUpsert /\ [][NextUpsert]_vars

\* ------------------------------- the builders and extractors, on their own

ParkingSpaceSamples ==
    {"Plenty of parking", "Difficult to find a spot", "Somewhat difficult to find a spot",
     "Free street parking", "Plenty, but difficult at night"}

ParkingTextSamples == {"", "Easy parking nearby", "Valet at the door"}

\* "R150-R250" stands for a range written with any dash.
PricePerPersonSamples == {"R150-R250", "R100", "R0-R50", "0", "cheap"}

AveragePriceSamples == {"", "R150-R250", "R 100", "R0", "200"}

BasePriceSamples == {"", "$$"}

HoursSamples == {"8 AM to 11 PM", "11 AM to 9 PM", "12 to 3 PM", "6 PM to 1 AM", "Closed"}

DayNames ==
    <<"Thursday", "Friday", "Saturday", "Sunday", "Monday", "Tuesday", "Wednesday">>

\* Reviews whose reviewContext has the key or not.
ContextReviews(texts, key, values) ==
    {[text |-> t, reviewContext |-> c] :
        t \in texts, c \in {EmptyDict} \cup {Dict(key, v) : v \in values}}

Detail(reviews, has_parking, price, average_price, opening_hours) ==
    [reviews |-> reviews,
     serviceOptions |-> [hasParking |-> has_parking],
     price |-> price,
     averagePrice |-> average_price,
     openingHours |-> opening_hours]

ParkingDetailSamples ==
    {Detail(rs, b, "", "", <<>>) :
        rs \in SeqsUpTo(ContextReviews(ParkingTextSamples, "Parking space",
                                       ParkingSpaceSamples), MaxContextReviews),
        b \in BOOLEAN}

PriceDetailSamples ==
    {Detail(rs, FALSE, bp, ap, <<>>) :
        rs \in SeqsUpTo(ContextReviews({""}, "Price per person", PricePerPersonSamples),
                        MaxContextReviews),
        bp \in BasePriceSamples, ap \in AveragePriceSamples}

OpeningHoursSamples ==
    {[k \in 1..Len(hs) |-> [day |-> DayNames[k], hours |-> hs[k]]] :
        hs \in SeqsUpTo(HoursSamples, MaxDays)}

OperationalDetailSamples ==
    {Detail(<<>>, FALSE, "", "", oh) : oh \in OpeningHoursSamples}

InitExtract ==
    /\ ChunksOff /\ ListOff /\ DetailOff /\ UpsertOff /\ DriverOff
    /\ ex_pc = "call"
    /\ \/ ex_call = "create_parking_location_chunk" /\ ex_detail \in ParkingDetailSamples
       \/ ex_call = "extract_price_intelligence" /\ ex_detail \in PriceDetailSamples
       \/ ex_call = "create_operational_chunk" /\ ex_detail \in OperationalDetailSamples
    /\ ex_result = None
    /\ ex_restaurant = None
    /\ ex_base_tokens = 0
    /\ ex_previous = None

CallCreateParkingLocationChunk ==
    /\ ex_pc = "call"
    /\ ex_call = "create_parking_location_chunk"
    /\ ex_result' = create_parking_location_chunk(1, ex_detail)
    /\ ex_pc' = "returned"
    /\ UNCHANGED <<ex_call, ex_detail, ex_restaurant, ex_base_tokens, ex_previous>>
    /\ UNCHANGED <<crVars, serverVars, listVars, detailVars, upsertVars, driverVars>>

CallExtractPriceIntelligence ==
    /\ ex_pc = "call"
    /\ ex_call = "extract_price_intelligence"
    /\ ex_result' = extract_price_intelligence(ex_detail)
    /\ ex_pc' = "returned"
    /\ UNCHANGED <<ex_call, ex_detail, ex_restaurant, ex_base_tokens, ex_previous>>
    /\ UNCHANGED <<crVars, serverVars, listVars, detailVars, upsertVars, driverVars>>

CallCreateOperationalChunk ==
    /\ ex_pc = "call"
    /\ ex_call = "create_operational_chunk"
    /\ ex_result' = create_operational_chunk(1, ex_detail)
    /\ ex_pc' = "returned"
    /\ UNCHANGED <<ex_call, ex_detail, ex_restaurant, ex_base_tokens, ex_previous>>
    /\ UNCHANGED <<crVars, serverVars, listVars, detailVars, upsertVars, driverVars>>

NextExtract ==
    \/ CallCreateParkingLocationChunk
    \/ CallExtractPriceIntelligence
    \/ CallCreateOperationalChunk

SpecExtract == InitExtract /\ [][NextExtract]_vars

\* ------------------- the theme extractor and the review chunks, on their own

MaxThemeReviews == 2

ThemeTextSamples == {"", "Amazing staff", "Fresh and cozy, worth it"}

StarSamples == {3, 5}

\* n reviews no keyword is in.
Padding(n) == [k \in 1..n |-> [text |-> "fine", rating |-> 5]]

\* Short lists of reviews, at the head of the list or around the 15th place.
ThemeDetailSamples ==
    {Detail(Padding(n) \o rs, FALSE, "", "", <<>>) :
        n \in {0, themes_window - 1, themes_window},
        rs \in SeqsUpTo({[text |-> t, rating |-> r] :
                            t \in ThemeTextSamples, r \in StarSamples}, MaxThemeReviews)}

MaxChunkReviews == 2

\* "R450 for 2" stands for any text whose second number is the smaller one.
ChunkReviewSamples ==
    {[text |-> "Amazing staff", rating |-> 5, tokens |-> 350,
      reviewContext |-> Dict("Price per person", "R450 for 2")],
     [text |-> "Fresh", rating |-> 4, tokens |-> 500, reviewContext |-> EmptyDict],
     [text |-> " ", rating |-> 5, tokens |-> 350,
      reviewContext |-> Dict("Price per person", "R100")],
     [text |-> "fine value", rating |-> 3, tokens |-> 500,
      reviewContext |-> Dict("Price per person", "R250-R450")]}

WithNames(rs) ==
    [j \in 1..Len(rs) |->
        [reviewerName |-> j, text |-> rs[j].text, rating |-> rs[j].rating,
         tokens |-> rs[j].tokens, reviewContext |-> rs[j].reviewContext]]

ChunkAveragePriceSamples == {"", "R500-R200", "R450-R600"}

ReviewDetailSamples ==
    {Detail(WithNames(rs), FALSE, "$$", ap, <<>>) :
        rs \in SeqsUpTo(ChunkReviewSamples, MaxChunkReviews),
        ap \in ChunkAveragePriceSamples}

\* totalScore, in tenths of a star; 0 when the summary has none.
TotalScoreSamples == {0, 39, 40, 45}

\* What the tokenizer counts for the preamble, whatever the order of its
\* sentences.
PreambleTokenSamples == {100}

RestaurantSamples ==
    {[id |-> 1, title |-> "Cafe", totalScore |-> r] : r \in TotalScoreSamples}

InitReviews ==
    /\ ChunksOff /\ ListOff /\ DetailOff /\ UpsertOff /\ DriverOff
    /\ ex_pc = "call"
    /\ \/ /\ ex_call = "extract_experience_themes"
          /\ ex_detail \in ThemeDetailSamples
          /\ ex_restaurant = None
          /\ ex_base_tokens = 0
       \/ /\ ex_call = "create_review_chunks"
          /\ ex_detail \in ReviewDetailSamples
          /\ ex_restaurant \in RestaurantSamples
          /\ ex_base_tokens \in PreambleTokenSamples
    /\ ex_result = None
    /\ ex_previous = None

CallExtractExperienceThemes ==
    /\ ex_pc = "call"
    /\ ex_call = "extract_experience_themes"
    /\ ex_result' \in extract_experience_themes(ex_detail.reviews)
    /\ ex_pc' = "returned"
    /\ UNCHANGED <<ex_call, ex_detail, ex_restaurant, ex_base_tokens, ex_previous>>
    /\ UNCHANGED <<crVars, serverVars, listVars, detailVars, upsertVars, driverVars>>

\* A run of create_review_chunks; the order list(set(...)) gives the theme
\* sentences is the run's own.
CallReviewChunks ==
    /\ ex_pc = "call"
    /\ ex_call = "create_review_chunks"
    /\ \E experience_themes \in extract_experience_themes(ex_detail.reviews) :
          ex_result' = ReviewChunksOf(ex_restaurant, ex_detail, experience_themes,
                                      ex_base_tokens)
    /\ ex_pc' = "returned"
    /\ UNCHANGED <<ex_call, ex_detail, ex_restaurant, ex_base_tokens, ex_previous>>
    /\ UNCHANGED <<crVars, serverVars, listVars, detailVars, upsertVars, driverVars>>

\* A second run, by another interpreter process, on the same input.
CallReviewChunksAgain ==
    /\ ex_pc = "returned"
    /\ ex_call = "create_review_chunks"
    /\ ex_previous' = ex_result
    /\ \E experience_themes \in extract_experience_themes(ex_detail.reviews) :
          ex_result' = ReviewChunksOf(ex_restaurant, ex_detail, experience_themes,
                                      ex_base_tokens)
    /\ ex_pc' = "returned again"
    /\ UNCHANGED <<ex_call, ex_detail, ex_restaurant, ex_base_tokens>>
    /\ UNCHANGED <<crVars, serverVars, listVars, detailVars, upsertVars, driverVars>>

NextReviews ==
    \/ CallExtractExperienceThemes
    \/ CallReviewChunks
    \/ CallReviewChunksAgain

SpecReviews == InitReviews /\ [][NextReviews]_vars

\* ----------------------------------------------------------------- claims

\* The review entries of the chunks, read in chunk order and within-chunk order.
ChunkEntries(chunks) == Flatten([k \in 1..Len(chunks) |-> chunks[k].reviews])

\* A text with at least one character that is not whitespace.
HasContent(text) == \E k \in 1..Len(text) : ~IsSpace(text[k])

WhoAndWhat(entries) ==
    [k \in 1..Len(entries) |-> <<entries[k].reviewerName, entries[k].text>>]

AccountedTokens(base_tokens, chunk) == base_tokens + SumTokens(chunk.reviews)

\* C1: the review entries of the chunks create_review_chunks returns, in chunk
\* order and within-chunk order, are exactly the input reviews whose stripped
\* text is non-empty, each once and in input order.
C1_ReviewsPartitioned ==
    cr_pc = "returned" =>
        LET kept == SelectSeq(cr_reviews, LAMBDA r : HasContent(r.text))
        IN WhoAndWhat(ChunkEntries(cr_chunks))
             = [k \in 1..Len(kept) |-> <<kept[k].reviewerName, Strip(kept[k].text)>>]

\* Several parts, one of them holding more than one review, and a blank review
\* in the input.
C1_Witness ==
    /\ cr_pc = "returned"
    /\ Len(cr_chunks) >= 2
    /\ \E k \in 1..Len(cr_chunks) : Len(cr_chunks[k].reviews) >= 2
    /\ \E k \in 1..Len(cr_reviews) : ~HasContent(cr_reviews[k].text)
    /\ \E k \in 1..Len(cr_reviews) : cr_reviews[k].text = <<" ", "a", " ">>

\* C2: create_review_chunks returns the empty list when no review has a text
\* that is non-empty after stripping.
C2_NoReviewsNoChunks ==
    (cr_pc = "returned" /\ \A k \in 1..Len(cr_reviews) : ~HasContent(cr_reviews[k].text))
        => cr_chunks = <<>>

\* Reviews are present, all of them blank, one of them whitespace only.
C2_Witness ==
    /\ cr_pc = "returned"
    /\ Len(cr_reviews) >= 2
    /\ \A k \in 1..Len(cr_reviews) : ~HasContent(cr_reviews[k].text)
    /\ \E k \in 1..Len(cr_reviews) : cr_reviews[k].text = <<" ">>
    /\ \E k \in 1..Len(cr_reviews) : cr_reviews[k].text = <<>>

\* C3: every chunk holds at least one review, every review it holds is the
\* whole entry of an input review, and a chunk whose accounted token count
\* (preamble plus its reviews) exceeds 800 holds exactly one review.
C3_ReviewsKeptWhole ==
    cr_pc = "returned" =>
        \A k \in 1..Len(cr_chunks) :
            /\ Len(cr_chunks[k].reviews) >= 1
            /\ \A e \in 1..Len(cr_chunks[k].reviews) :
                   \E r \in 1..Len(cr_reviews) :
                       /\ cr_chunks[k].reviews[e].reviewerName = cr_reviews[r].reviewerName
                       /\ cr_chunks[k].reviews[e].text = Strip(cr_reviews[r].text)
                       /\ cr_chunks[k].reviews[e].tokens = cr_reviews[r].tokens
            /\ AccountedTokens(cr_base_tokens, cr_chunks[k]) > max_chunk_tokens
                   => Len(cr_chunks[k].reviews) = 1

\* An oversized review alone in its chunk, next to a chunk of several reviews
\* that fills the budget exactly.
C3_Witness ==
    /\ cr_pc = "returned"
    /\ cr_base_tokens < max_chunk_tokens
    /\ \E k \in 1..Len(cr_chunks) :
           /\ AccountedTokens(cr_base_tokens, cr_chunks[k]) > max_chunk_tokens
           /\ Len(cr_chunks[k].reviews) = 1
    /\ \E k \in 1..Len(cr_chunks) :
           /\ AccountedTokens(cr_base_tokens, cr_chunks[k]) = max_chunk_tokens
           /\ Len(cr_chunks[k].reviews) = 2

\* The documents handed to the vector store, over all calls, in order.
Submitted == Flatten([k \in 1..Len(store_calls) |-> store_calls[k].batch])

\* The chunk lists process_restaurant returned, concatenated in restaurant order.
Built == Flatten([k \in 1..Len(results) |-> results[k].chunks])

\* C4: when run_pipeline completes, the documents passed to the vector store
\* over all batch calls are the chunk lists built for the restaurants of the
\* window, concatenated in restaurant order: none twice, none left behind.
C4_SubmittedExactlyOnce ==
    pc = "done" =>
        /\ Len(results) = Len(restaurants)
        /\ \A k \in 1..Len(results) : results[k].restaurant_id = restaurants[k]
        /\ \A k \in 1..Len(store_calls) : store_calls[k].ok
        /\ Submitted = Built

\* A completed run with a flush at the threshold and a flush of the remainder.
C4_Witness ==
    /\ pc = "done"
    /\ Len(results) >= 3
    /\ all_documents # <<>>
    /\ Len(all_documents) < Len(Submitted)
    /\ Len(Submitted) > flush_threshold

\* n documents in batches of b: ceil(n / b) calls.
CeilDiv(n, b) == (n + b - 1) \div b

\* C5: upsert_documents with n documents and batch size b makes ceil(n/b)
\* calls, each of b documents but the last, which has 1 to b, and the batches
\* in call order make up the input; 237 documents with b = 50 go as 50, 50,
\* 50, 50, 37.
C5_BatchesCoverInput ==
    up_pc = "returned" =>
        LET n == Len(all_documents)
            calls == Len(store_calls)
        IN /\ calls = CeilDiv(n, batch_size)
           /\ \A k \in 1..calls :
                  /\ store_calls[k].ok
                  /\ k < calls => Len(store_calls[k].batch) = batch_size
                  /\ Len(store_calls[k].batch) \in 1..batch_size
           /\ Submitted = all_documents
           /\ (n = 237 /\ batch_size = 50) =>
                  [k \in 1..calls |-> Len(store_calls[k].batch)] = <<50, 50, 50, 50, 37>>

\* 237 documents upserted with the default batch size.
C5_Witness ==
    /\ up_pc = "returned"
    /\ Len(all_documents) = 237
    /\ batch_size = 50
    /\ Len(store_calls) = 5

\* C6: against a list endpoint that reports its true total, a completed
\* fetch_restaurant_data has requested the offsets 0, 50, 100, ... only,
\* max(1, ceil(T/50)) of them, and returns the T summaries in server order.
C6_PagesCoverList ==
    (fl_pc = "returned" /\ server_total = Len(server_records)) =>
        LET T == Len(server_records)
            n == IF CeilDiv(T, page_limit) > 1 THEN CeilDiv(T, page_limit) ELSE 1
        IN /\ list_requests = [k \in 1..n |-> (k - 1) * page_limit]
           /\ all_restaurants = server_records
           /\ T = 120 => list_requests = <<0, 50, 100>>

\* 120 records fetched in three requests.
C6_Witness ==
    /\ fl_pc = "returned"
    /\ Len(server_records) = 120
    /\ server_total = 120
    /\ Len(list_requests) = 3
    /\ Len(all_restaurants) = 120

\* At most max_retries requests per call, none after a successful one.
DetailRequestsBounded ==
    /\ d_requests <= max_retries
    /\ d_pc = "attempt" => (d_requests = attempt /\ d_last # "ok")
    /\ d_last = "ok" => d_pc = "returned"

DocumentsOf(r) ==
    {k \in 1..Len(all_documents) : all_documents[k].restaurant_id = r}
    \cup {k \in 1..Len(Submitted) : Submitted[k].restaurant_id = r}

\* A run ends early only by one of the fatal errors.
OnlyFatalErrorsAbort ==
    /\ pc = "done" => Len(results) = Len(restaurants)
    /\ pc = "failed" => error \in {"index", "list", "upsert"}
    /\ error = "upsert" =>
           (store_calls # <<>> /\ ~store_calls[Len(store_calls)].ok)

\* C8: a detail fetch whose 5 attempts all fail returns no detail without
\* raising; process_restaurant returns no chunk for it, nothing of that
\* restaurant reaches the accumulator or the store, and the run goes on.
C8_DetailFailureSkips ==
    /\ (d_pc = "returned" /\ d_last # "ok") =>
           (d_requests = max_retries /\ detailed_data = NoDetail /\ pc = "process")
    /\ \A k \in 1..Len(results) :
           results[k].outcome = "no_detail" =>
               (results[k].chunks = <<>> /\ DocumentsOf(results[k].restaurant_id) = {})
    /\ OnlyFatalErrorsAbort

\* A completed run whose first restaurant had no detail and whose next one
\* was built and submitted.
C8_Witness ==
    /\ pc = "done"
    /\ Len(results) >= 2
    /\ results[1].outcome = "no_detail"
    /\ results[2].outcome = "built"
    /\ DocumentsOf(results[2].restaurant_id) # {}

IsReviewChunk(doc) == doc.chunk_type[1] \in {"reviews", "reviews_part"}

\* C9: process_restaurant returns the empty list or the full list: overview,
\* operational, parking_location, r >= 0 review chunks, features; a build
\* error gives the empty list, and the run goes on.
C9_AllOrNothing ==
    /\ \A k \in 1..Len(results) :
           LET chunks == results[k].chunks
               n == Len(chunks)
           IN /\ results[k].outcome # "built" => chunks = <<>>
              /\ results[k].outcome = "built" =>
                     /\ n >= 4
                     /\ chunks[1].chunk_type = <<"overview">>
                     /\ chunks[2].chunk_type = <<"operational">>
                     /\ chunks[3].chunk_type = <<"parking_location">>
                     /\ chunks[n].chunk_type = <<"features">>
                     /\ \A j \in 4..(n - 1) : IsReviewChunk(chunks[j])
    /\ OnlyFatalErrorsAbort

\* A completed run whose first restaurant failed to build and whose next one
\* was built with review chunks.
C9_Witness ==
    /\ pc = "done"
    /\ Len(results) >= 2
    /\ results[1].outcome = "build_error"
    /\ results[2].outcome = "built"
    /\ Len(results[2].chunks) > 5

\* C10: a failed add_documents call is the last call ever made, and it ends
\* the run: no retry, no later batch, no further restaurant.
C10_UpsertErrorIsFatal ==
    /\ \A k \in 1..Len(store_calls) : ~store_calls[k].ok => k = Len(store_calls)
    /\ (store_calls # <<>> /\ ~store_calls[Len(store_calls)].ok) =>
           /\ pc = "failed"
           /\ error = "upsert"
           /\ up_pc = "raised"
           /\ d_pc = "off"
           /\ i = Len(results)

\* A run that failed on a batch with batches and restaurants still to come.
C10_Witness ==
    /\ pc = "failed"
    /\ error = "upsert"
    /\ Len(store_calls) >= 2
    /\ up_i + batch_size < Len(all_documents)
    /\ i < Len(restaurants)

\* C11: a failed page request of the list endpoint is the last request
\* fetch_restaurant_data makes (no offset is asked twice); the pages fetched
\* before it are not returned, run_pipeline fails on it, and no detail request
\* is made and no document reaches the vector store.
C11_ListErrorIsFatal ==
    /\ \A a, b \in 1..Len(list_requests) : a < b => list_requests[a] < list_requests[b]
    /\ error = "list" => fl_pc = "raised"
    /\ fl_pc = "raised" =>
           /\ list_requests =
                  [k \in 1..(Len(all_restaurants) \div page_limit + 1) |-> (k - 1) * page_limit]
           /\ pc = "failed"
           /\ error = "list"
           /\ restaurants = <<>>
           /\ results = <<>>
           /\ d_pc = "off"
           /\ d_requests = 0
           /\ all_documents = <<>>
           /\ store_calls = <<>>

\* The request for the second page failed after a full first page.
C11_Witness ==
    /\ fl_pc = "raised"
    /\ pc = "failed"
    /\ Len(all_restaurants) = page_limit
    /\ list_requests = <<0, page_limit>>

\* The part of the accumulator the running upsert_documents call has not yet
\* handed to the store.
NotYetUpserted == SubSeq(all_documents, up_i + 1, Len(all_documents))

\* C12: between restaurants and while one is processed the accumulator holds
\* fewer than 250 documents and everything built before is either in it or
\* in the store; a flush inside the loop starts right after the restaurant
\* that brought the accumulator to 250 or more and hands over the whole
\* accumulator, which is then cleared; a flush of fewer than 250 documents
\* happens only after the last restaurant.
C12_FlushAtThreshold ==
    /\ pc \in {"loop", "process"} =>
           /\ Len(all_documents) < flush_threshold
           /\ Submitted \o all_documents = Built
    /\ pc = "flush" =>
           /\ Len(all_documents) >= flush_threshold
           /\ Len(all_documents) - Len(results[Len(results)].chunks) < flush_threshold
           /\ Submitted \o NotYetUpserted = Built
    /\ pc = "final_flush" =>
           /\ i = Len(restaurants)
           /\ all_documents # <<>>
           /\ Len(all_documents) < flush_threshold
           /\ Submitted \o NotYetUpserted = Built

\* Back in the loop after a flush of exactly 250 documents, with a
\* restaurant still to process.
C12_Witness ==
    /\ pc = "loop"
    /\ up_pc = "returned"
    /\ i < Len(restaurants)
    /\ all_documents = <<>>
    /\ Len(Submitted) = flush_threshold

\* Positions s .. s+L-1 of the fetched list, those that exist; s to the end
\* when no limit is given.
SliceOf(fetched, s, lim) ==
    SubSeq(fetched, s + 1,
           IF lim = <<>> THEN Len(fetched) ELSE Min(s + lim[1], Len(fetched)))

\* C13: for every start_from s >= 0 and every given limit L >= 0 the
\* restaurants run_pipeline processes are those at positions s .. s+L-1 of
\* the fetched list, never more than L; with no limit, s to the end.
C13_WindowIsSlice ==
    /\ (fl_pc = "returned" /\ pc # "fetch_list") =>
           restaurants = SliceOf(all_restaurants, start_from, limit)
    /\ limit # <<>> => Len(results) <= limit[1]
    /\ pc = "done" =>
           [k \in 1..Len(results) |-> results[k].restaurant_id]
               = SliceOf(all_restaurants, start_from, limit)

\* A completed run with limit 0 that processed restaurants.
C13_Witness ==
    /\ pc = "done"
    /\ limit = <<0>>
    /\ start_from = 1
    /\ Len(all_restaurants) = 3
    /\ [k \in 1..Len(results) |-> results[k].restaurant_id] = <<2, 3>>

\* The chunk types of r review chunks in emission order.
ReviewTypes(r) ==
    IF r = 1 THEN << <<"reviews">> >> ELSE [n \in 1..r |-> <<"reviews_part", n>>]

\* C14: the restaurants handled so far are the first ones of the window, in
\* its order, and the window is a run of consecutive entries of the fetched
\* list, which is in server order; a restaurant's chunks are overview,
\* operational, parking_location, the review chunks, features; the review
\* chunks come in increasing part number and their reviews in input order.
C14_OrderPreserved ==
    /\ Len(results) <= Len(restaurants)
    /\ pc = "process" => Len(results) = i
    /\ \A k \in 1..Len(results) : results[k].restaurant_id = restaurants[k]
    /\ \E lo \in 0..Len(all_restaurants) :
           restaurants = SubSeq(all_restaurants, lo + 1, lo + Len(restaurants))
    /\ all_restaurants = SubSeq(server_records, 1, Len(all_restaurants))
    /\ \A k \in 1..Len(results) :
           results[k].outcome = "built" =>
               LET chunks == results[k].chunks
                   r == Len(chunks) - 4
                   entries == ChunkEntries(SubSeq(chunks, 4, 3 + r))
               IN /\ r >= 0
                  /\ [j \in 1..Len(chunks) |-> chunks[j].chunk_type]
                         = << <<"overview">>, <<"operational">>, <<"parking_location">> >>
                           \o ReviewTypes(r) \o << <<"features">> >>
                  /\ \A e \in 1..(Len(entries) - 1) :
                         entries[e].reviewerName < entries[e + 1].reviewerName

\* Two restaurants built one after the other, the second one with several
\* review parts, out of a window that starts at the second fetched restaurant.
C14_Witness ==
    /\ pc = "done"
    /\ start_from = 1
    /\ Len(results) = 2
    /\ results[1].outcome = "built"
    /\ results[2].outcome = "built"
    /\ Len(results[2].chunks) >= 7

\* overview, operational, parking_location, features, reviews, or
\* reviews_part_N with N >= 1.
IsChunkType(t) ==
    \/ t \in { <<"overview">>, <<"operational">>, <<"parking_location">>,
                <<"features">>, <<"reviews">> }
    \/ (Len(t) = 2 /\ t[1] = "reviews_part" /\ t[2] \in Nat /\ t[2] >= 1)

\* C15: every chunk process_restaurant returns for a restaurant carries that
\* restaurant's id and one of the chunk types, and no two chunks of the
\* restaurant carry the same chunk type.
C15_ChunkIdentity ==
    \A k \in 1..Len(results) :
        LET chunks == results[k].chunks
        IN /\ \A j \in 1..Len(chunks) :
                  /\ chunks[j].restaurant_id = results[k].restaurant_id
                  /\ IsChunkType(chunks[j].chunk_type)
           /\ Cardinality({chunks[j].chunk_type : j \in 1..Len(chunks)}) = Len(chunks)

\* The second and third fetched restaurants built, one with a single review
\* chunk and one with many parts.
C15_Witness ==
    /\ Len(results) = 2
    /\ results[1].restaurant_id = 2
    /\ results[2].restaurant_id = 3
    /\ Len(results[1].chunks) = 5
    /\ results[1].chunks[4].chunk_type = <<"reviews">>
    /\ Len(results[2].chunks) >= 7
    /\ results[2].chunks[5].chunk_type = <<"reviews_part", 2>>

\* text contains pat, letter case aside.
ContainsIgnoringCase(text, pat) ==
    \E k \in 1..(Len(text) - Len(pat) + 1) :
        \A j \in 1..Len(pat) : LowerChar(CharAt(text, k + j - 1)) = LowerChar(CharAt(pat, j))

Returned(call) == ex_pc = "returned" /\ ex_call = call

\* The detail record with only its first k reviews.
FirstReviews(detail, k) ==
    [detail EXCEPT !.reviews = SubSeq(detail.reviews, 1, k)]

\* The reviews whose context has the key.
ReviewsWith(detail, key) ==
    {k \in 1..Len(detail.reviews) :
        key \in DOMAIN detail.reviews[k].reviewContext}

\* The reviews whose 'Price per person' value has numbers.
ReviewsWithNumbers(detail) ==
    {k \in ReviewsWith(detail, "Price per person") :
        FindNumbers(detail.reviews[k].reviewContext["Price per person"]) # <<>>}

Prices(r) == <<r.price_min, r.price_max>>

\* C16: once the average-price field or a review's 'Price per person' has
\* yielded numbers, no later review changes price_min or price_max, whatever
\* the parsed values are, 0 included.
C16_PriceNeverOverwritten ==
    Returned("extract_price_intelligence") =>
        \A k \in 0..(Len(ex_detail.reviews) - 1) :
            (\/ FindRandNumbers(ex_detail.averagePrice) # <<>>
             \/ \E j \in ReviewsWithNumbers(ex_detail) : j <= k)
            => Prices(extract_price_intelligence(FirstReviews(ex_detail, k + 1)))
                 = Prices(extract_price_intelligence(FirstReviews(ex_detail, k)))

\* An average price of R0 (price_min 0, price_max 100) replaced by the
\* numbers of a review.
C16_Witness ==
    /\ Returned("extract_price_intelligence")
    /\ ex_detail.averagePrice = "R0"
    /\ Len(ex_detail.reviews) = 1
    /\ ex_detail.reviews[1].reviewContext = Dict("Price per person", "R150-R250")
    /\ Prices(ex_result) = <<150, 250>>

\* First number, and second number or first number plus the gap.
FirstSecond(numbers, gap) ==
    <<IntOf(numbers[1]),
      IF Len(numbers) > 1 THEN IntOf(numbers[2]) ELSE IntOf(numbers[1]) + gap>>

\* C17: numbers in the average price give price_min and price_max (gap 100);
\* with no base or average price the first review 'Price per person' value
\* that has numbers gives them (gap 50), so 'R150-R250' gives 150 and 250;
\* with no parsable source both are 0.
C17_PriceParsingRule ==
    Returned("extract_price_intelligence") =>
        LET from_average == FindRandNumbers(ex_detail.averagePrice)
            with_numbers == ReviewsWithNumbers(ex_detail)
            first == CHOOSE k \in with_numbers : \A j \in with_numbers : k <= j
        IN /\ from_average # <<>> => Prices(ex_result) = FirstSecond(from_average, 100)
           /\ (ex_detail.price = "" /\ ex_detail.averagePrice = "" /\ with_numbers # {}) =>
                  Prices(ex_result)
                      = FirstSecond(FindNumbers(
                            ex_detail.reviews[first].reviewContext["Price per person"]), 50)
           /\ (from_average = <<>> /\ with_numbers = {}) => Prices(ex_result) = <<0, 0>>
           /\ (ex_detail.price = "" /\ ex_detail.averagePrice = ""
               /\ Len(ex_detail.reviews) = 1
               /\ ex_detail.reviews[1].reviewContext = Dict("Price per person", "R150-R250"))
                  => Prices(ex_result) = <<150, 250>>

\* No base or average price, a first review of R0-R50 and a second of R100:
\* the second one's numbers are returned.
C17_Witness ==
    /\ Returned("extract_price_intelligence")
    /\ ex_detail.price = ""
    /\ ex_detail.averagePrice = ""
    /\ Len(ex_detail.reviews) = 2
    /\ ex_detail.reviews[1].reviewContext = Dict("Price per person", "R0-R50")
    /\ ex_detail.reviews[2].reviewContext = Dict("Price per person", "R100")
    /\ Prices(ex_result) = <<100, 150>>

\* The value of the only review that has a 'Parking space' context.
OnlyParkingSpace(detail) ==
    LET k == CHOOSE j \in ReviewsWith(detail, "Parking space") : TRUE
    IN detail.reviews[k].reviewContext["Parking space"]

\* C18: with one review that has a 'Parking space' context, the
\* parking_location chunk has parking_difficulty 'easy' when the value
\* contains 'plenty', 'difficult' when it contains 'difficult' and not
\* 'plenty'; with no such review it has 'unknown'.
C18_ParkingDifficulty ==
    Returned("create_parking_location_chunk") =>
        LET with == ReviewsWith(ex_detail, "Parking space")
        IN /\ ex_result.chunk_type = <<"parking_location">>
           /\ with = {} => ex_result.parking_difficulty = "unknown"
           /\ Cardinality(with) = 1 =>
                  LET value == OnlyParkingSpace(ex_detail)
                  IN /\ ContainsIgnoringCase(value, "plenty")
                         => ex_result.parking_difficulty = "easy"
                     /\ (ContainsIgnoringCase(value, "difficult")
                         /\ ~ContainsIgnoringCase(value, "plenty"))
                         => ex_result.parking_difficulty = "difficult"
                     /\ value = "Difficult to find a spot"
                         => ex_result.parking_difficulty = "difficult"

\* Two reviews, the second one with "Difficult to find a spot".
C18_Witness ==
    /\ Returned("create_parking_location_chunk")
    /\ Len(ex_detail.reviews) = 2
    /\ ReviewsWith(ex_detail, "Parking space") = {2}
    /\ OnlyParkingSpace(ex_detail) = "Difficult to find a spot"
    /\ ex_result.parking_difficulty = "difficult"

\* C19: a 'Parking space' value that contains 'somewhat difficult' gives
\* parking_difficulty 'moderate' and has_parking true.
C19_SomewhatDifficultIsModerate ==
    (/\ Returned("create_parking_location_chunk")
     /\ Cardinality(ReviewsWith(ex_detail, "Parking space")) = 1
     /\ ContainsIgnoringCase(OnlyParkingSpace(ex_detail), "somewhat difficult"))
    => (ex_result.parking_difficulty = "moderate" /\ ex_result.has_parking)

\* "Somewhat difficult to find a spot" tagged 'difficult', without parking.
C19_Witness ==
    /\ Returned("create_parking_location_chunk")
    /\ Len(ex_detail.reviews) = 1
    /\ ReviewsWith(ex_detail, "Parking space") = {1}
    /\ OnlyParkingSpace(ex_detail) = "Somewhat difficult to find a spot"
    /\ ex_result.parking_difficulty = "difficult"
    /\ ~ex_result.has_parking

\* The days whose hours text contains one of the tokens, letter case aside.
DaysContaining(opening_hours, tokens) ==
    {opening_hours[k].day : k \in {j \in 1..Len(opening_hours) :
        \E t \in tokens : ContainsIgnoringCase(opening_hours[j].hours, t)}}

\* The days named by the clauses of the content that start with `opening`.
DaysNamed(content_parts, opening) ==
    UNION {{content_parts[k][2][j] : j \in 1..Len(content_parts[k][2])} :
              k \in {c \in 1..Len(content_parts) : content_parts[c][1] = opening}}

C21_PackingIsGreedy ==
    cr_pc = "returned" =>
        \A k \in 1..(Len(cr_chunks) - 1) :
            AccountedTokens(cr_base_tokens, cr_chunks[k])
                + cr_chunks[k + 1].reviews[1].tokens > max_chunk_tokens

\* Three chunks, the first of two reviews that fill the budget exactly.
C21_Witness ==
    /\ cr_pc = "returned"
    /\ Len(cr_chunks) = 3
    /\ Len(cr_chunks[1].reviews) = 2
    /\ AccountedTokens(cr_base_tokens, cr_chunks[1]) = max_chunk_tokens
    /\ Len(cr_chunks[2].reviews) = 1

\* C22: a single chunk is typed 'reviews'; k > 1 chunks are typed
\* reviews_part_1 .. reviews_part_k in emission order, none of them 'reviews'.
C22_PartsNumbered ==
    cr_pc = "returned" =>
        /\ Len(cr_chunks) = 1 => cr_chunks[1].chunk_type = <<"reviews">>
        /\ Len(cr_chunks) > 1 =>
               \A k \in 1..Len(cr_chunks) : cr_chunks[k].chunk_type = <<"reviews_part", k>>

\* Four chunks, one per review.
C22_Witness ==
    /\ cr_pc = "returned"
    /\ Len(cr_chunks) = 4
    /\ cr_chunks[4].chunk_type = <<"reviews_part", 4>>

RECURSIVE SumReviewCount(_)
SumReviewCount(chunks) ==
    IF chunks = <<>> THEN 0 ELSE Head(chunks).review_count + SumReviewCount(Tail(chunks))

\* The input reviews whose text is empty or whitespace only.
BlankReviews == {k \in 1..Len(cr_reviews) : ~HasContent(cr_reviews[k].text)}

\* C24 as stated: review_count is the number of reviews in the chunk, and
\* the review_count values of a restaurant's review chunks add up to the
\* total_reviews each of them carries.
C24_CountsAddUpToTotal ==
    cr_pc = "returned" =>
        \A k \in 1..Len(cr_chunks) :
            /\ cr_chunks[k].review_count = Len(cr_chunks[k].reviews)
            /\ cr_chunks[k].total_reviews = SumReviewCount(cr_chunks)

\* C24, amended: review_count is the number of reviews in the chunk;
\* total_reviews is the number of reviews of the detail record, blank ones
\* included, so the review_count values add up to total_reviews less the
\* number of blank reviews.
C24_CountsAddUpToKept ==
    cr_pc = "returned" =>
        /\ \A k \in 1..Len(cr_chunks) :
               /\ cr_chunks[k].review_count = Len(cr_chunks[k].reviews)
               /\ cr_chunks[k].total_reviews = Len(cr_reviews)
        /\ cr_chunks # <<>> =>
               SumReviewCount(cr_chunks) = Len(cr_reviews) - Cardinality(BlankReviews)

\* Two chunks made from four reviews, two of them blank.
C24_Witness ==
    /\ cr_pc = "returned"
    /\ Len(cr_reviews) = 4
    /\ Cardinality(BlankReviews) = 2
    /\ Len(cr_chunks) = 2
    /\ cr_chunks[1].total_reviews = 4
    /\ SumReviewCount(cr_chunks) = 2

\* What the page content of a chunk costs a tokenizer that counts the
\* preamble, the joining space, each review and each " | " on their own.
PageTokens(base_tokens, chunk, space_tokens, separator_tokens) ==
    base_tokens + space_tokens + SumTokens(chunk.reviews)
    + (Len(chunk.reviews) - 1) * separator_tokens

\* C26: the page content of every chunk of more than one review is within
\* the 800-token budget, whatever the joining space and the separators cost.
C26_PageWithinBudget ==
    cr_pc = "returned" =>
        \A k \in 1..Len(cr_chunks) :
            Len(cr_chunks[k].reviews) > 1 =>
                \A space_tokens \in 0..1, separator_tokens \in 0..2 :
                    PageTokens(cr_base_tokens, cr_chunks[k], space_tokens, separator_tokens)
                        <= max_chunk_tokens

\* A chunk of two reviews whose accounted tokens are exactly 800: one token
\* for the separator takes the page to 801.
C26_Witness ==
    /\ cr_pc = "returned"
    /\ cr_base_tokens = 100
    /\ Len(cr_chunks) = 1
    /\ Len(cr_chunks[1].reviews) = 2
    /\ AccountedTokens(cr_base_tokens, cr_chunks[1]) = max_chunk_tokens
    /\ PageTokens(cr_base_tokens, cr_chunks[1], 0, 1) = max_chunk_tokens + 1

\* The keyword families and the sentence of each.
ThemeFamilies ==
    <<[words |-> ExcellenceWords, sentence |-> ExcellenceSentence],
      [words |-> ServiceWords, sentence |-> ServiceSentence],
      [words |-> FoodWords, sentence |-> FoodSentence],
      [words |-> AtmosphereWords, sentence |-> AtmosphereSentence],
      [words |-> ValueWords, sentence |-> ValueSentence]>>

\* How many times pat is in text.
Occurrences(text, pat) ==
    Cardinality({k \in 1..(Len(text) - Len(pat) + 1) :
                    SubSeq(text, k, k + Len(pat) - 1) = pat})

\* The families a keyword of which is in one of the first 15 reviews rated 4
\* or more, letter case aside.
MatchedFamilies(reviews) ==
    {f \in 1..Len(ThemeFamilies) :
        \E k \in 1..Min(15, Len(reviews)) :
            /\ reviews[k].rating >= 4
            /\ \E w \in 1..Len(ThemeFamilies[f].words) :
                  ContainsIgnoringCase(reviews[k].text, ThemeFamilies[f].words[w])}

RECURSIVE SumLen(_)
SumLen(S) ==
    IF S = {} THEN 0
    ELSE LET f == CHOOSE x \in S : TRUE
         IN Len(ThemeFamilies[f].sentence) + SumLen(S \ {f})

\* C23: all review chunks of one restaurant carry the same rating, price_min,
\* price_max and tier flags; the rating is the restaurant's, and the flags
\* follow their definitions: high_rated iff rating >= 4.0, exceptional iff
\* rating >= 4.5, affordable iff 0 < price_max <= 300, mid_range iff
\* price_min >= 200 and price_max <= 500, upscale iff price_min >= 400.
C23_TiersFollowDefinitions ==
    (ex_call = "create_review_chunks" /\ ex_pc # "call") =>
        /\ \A j, k \in 1..Len(ex_result) : ex_result[j].metadata = ex_result[k].metadata
        /\ \A k \in 1..Len(ex_result) :
              LET m == ex_result[k].metadata
              IN /\ m.rating = ex_restaurant.totalScore
                 /\ m.high_rated <=> m.rating >= 40
                 /\ m.exceptional <=> m.rating >= 45
                 /\ m.exceptional => m.high_rated
                 /\ m.affordable <=> (0 < m.price_max /\ m.price_max <= 300)
                 /\ m.mid_range <=> (m.price_min >= 200 /\ m.price_max <= 500)
                 /\ m.upscale <=> m.price_min >= 400

\* Two chunks of an exceptional mid-range restaurant, and elsewhere chunks of
\* a restaurant with no price at all.
C23_Witness ==
    /\ ex_call = "create_review_chunks"
    /\ ex_pc = "returned"
    /\ Len(ex_result) = 2
    /\ ex_restaurant.totalScore = 45
    /\ ex_result[2].metadata.exceptional
    /\ ex_result[2].metadata.mid_range
    /\ ~ex_result[2].metadata.affordable
    /\ ex_result[1].metadata.price_min = 250
    /\ ex_result[1].metadata.price_max = 450

\* C25: a family's sentence is in what extract_experience_themes returns
\* exactly when a keyword of the family is in one of the first 15 reviews
\* rated 4 or more, and then once only; nothing else is returned, so at most
\* 5 sentences are; and 'popular dining destination' is returned exactly when
\* no family matched.
C25_ThemesOfFirstFifteen ==
    Returned("extract_experience_themes") =>
        LET matched == MatchedFamilies(ex_detail.reviews)
        IN /\ \A f \in 1..Len(ThemeFamilies) :
                 Occurrences(ex_result, ThemeFamilies[f].sentence)
                     = IF f \in matched THEN 1 ELSE 0
           /\ Cardinality(matched) <= 5
           /\ matched # {} =>
                 Len(ex_result) = SumLen(matched) + 2 * (Cardinality(matched) - 1)
           /\ (ex_result = "popular dining destination") <=> (matched = {})

\* The 15th review brings two sentences, the 16th would bring three more.
C25_Witness ==
    /\ Returned("extract_experience_themes")
    /\ Len(ex_detail.reviews) = 16
    /\ ex_detail.reviews[15] = [text |-> "Amazing staff", rating |-> 5]
    /\ ex_detail.reviews[16] = [text |-> "Fresh and cozy, worth it", rating |-> 5]
    /\ ex_result = "praised for friendly service. consistently receives excellent reviews"

\* C27: in the metadata of every review chunk price_min <= price_max, and no
\* chunk is flagged both affordable and upscale.
C27_PriceMinAtMostMax ==
    (ex_call = "create_review_chunks" /\ ex_pc # "call") =>
        \A k \in 1..Len(ex_result) :
            LET m == ex_result[k].metadata
            IN m.price_min <= m.price_max /\ ~(m.affordable /\ m.upscale)

\* 'Price per person' of "R450 for 2": price_min 450, price_max 2, and the
\* chunk is both affordable and upscale.
C27_Witness ==
    /\ ex_call = "create_review_chunks"
    /\ ex_pc = "returned"
    /\ ex_detail.averagePrice = ""
    /\ Len(ex_result) = 1
    /\ ex_result[1].metadata.price_min = 450
    /\ ex_result[1].metadata.price_max = 2
    /\ ex_result[1].metadata.affordable
    /\ ex_result[1].metadata.upscale

\* C29: two runs of the review chunk builder on the same summary and detail,
\* with the same token counts, return the same chunks.
C29_RunsAgree ==
    (ex_call = "create_review_chunks" /\ ex_pc = "returned again") =>
        ex_result = ex_previous

\* Two runs that split the reviews the same way and give the same metadata,
\* with the theme sentences of the preamble in two different orders.
C29_Witness ==
    /\ ex_call = "create_review_chunks"
    /\ ex_pc = "returned again"
    /\ Len(ex_result) = 1
    /\ Len(ex_previous) = 1
    /\ ex_result[1].metadata = ex_previous[1].metadata
    /\ ex_result[1].page_content.reviews = ex_previous[1].page_content.reviews
    /\ ex_result[1].page_content.base_content # ex_previous[1].page_content.base_content
    /\ Contains(ex_result[1].page_content.base_content,
                "Praised for friendly service. consistently receives excellent reviews.")
    /\ Contains(ex_previous[1].page_content.base_content,
                "Consistently receives excellent reviews. praised for friendly service.")

\* The documents of the add_documents calls that returned, in order.
SubmittedOk ==
    Flatten([k \in 1..Len(store_calls) |->
                IF store_calls[k].ok THEN store_calls[k].batch ELSE <<>>])

\* How many of the documents are the restaurant's.
CountOf(documents, restaurant_id) ==
    Cardinality({k \in 1..Len(documents) : documents[k].restaurant_id = restaurant_id})

\* C28: when run_pipeline has ended, normally or on a batch-upsert error,
\* each restaurant of the window has all of its built chunks among the
\* documents the store accepted, or none of them.
C28_RestaurantAllOrNothing ==
    pc \in {"done", "failed"} =>
        \A k \in 1..Len(results) :
            CountOf(SubmittedOk, results[k].restaurant_id)
                \in {0, Len(results[k].chunks)}

\* The run ended on an upsert error with the first batch of a restaurant's
\* documents accepted and the rest of them not.
C28_Witness ==
    /\ pc = "failed"
    /\ error = "upsert"
    /\ \E k \in 1..Len(results) :
          /\ Len(results[k].chunks) = ManyReviews + 4
          /\ CountOf(SubmittedOk, results[k].restaurant_id) = default_batch_size

\* The page the k-th request of the call is answered with.
PageOf(k) == ServerPage(server_records, list_requests[k], page_limit)

\* What is accumulated after the first k requests were answered.
AccumulatedAfter(k) == Len(Flatten([j \in 1..k |-> PageOf(j)]))

\* The answer to the k-th request ends the loop.
StopsAt(k) ==
    \/ PageOf(k) = <<>>
    \/ Len(PageOf(k)) < page_limit
    \/ AccumulatedAfter(k) >= server_total

\* No offset asked twice; every answered request but the last one of a call
\* that returned had a full page and left the total unreached, and that last
\* one had an empty page, a short page, or reached the total.
FetchStopsAtFirst ==
    /\ \A j, k \in 1..Len(list_requests) :
          list_requests[j] = list_requests[k] => j = k
    /\ \A k \in 1..Len(list_requests) :
          IF k = Len(list_requests)
          THEN /\ fl_pc = "returned" => StopsAt(k)
               /\ fl_pc = "loop" => ~StopsAt(k)
          ELSE ~StopsAt(k)

\* C30: whatever total the list endpoint reports for its finitely many
\* records, fetch_restaurant_data comes to an end; it stops at the first empty
\* page, the first page shorter than the limit, or as soon as the accumulated
\* count reaches the reported total, and asks for no offset twice.
C30_FetchTerminates ==
    /\ <>(fl_pc \in {"returned", "raised"})
    /\ []FetchStopsAtFirst

\* 100 records reported as 150: two full pages, then the empty one.
C30_Witness ==
    /\ fl_pc = "returned"
    /\ Len(server_records) = 2 * page_limit
    /\ server_total = 3 * page_limit
    /\ list_requests = <<0, page_limit, 2 * page_limit>>
    /\ all_restaurants = server_records

====
